---------------------------- MODULE Spec2Model ----------------------------
(***************************************************************************)
(* A model of the Monopoly game engine: PlayerManager, BoardManager, the   *)
(* space actions, the two card decks as configured in main.cc, and the     *)
(* turn controller GameCore::startGame / GameCore::playTurn.               *)
(*                                                                         *)
(* Control flow is sequential.  The position of the single thread of       *)
(* control is kept in pc; the recursion of playTurn (extra turn after a    *)
(* double) is kept in depth: every frame of playTurn that is waiting for   *)
(* a recursive call resumes at the bankruptcy scan, so the stack is fully  *)
(* described by its height.  All calls made while a space is resolved      *)
(* (movePlayer -> handleSpace -> action -> drawCard -> card effect ->      *)
(* movePlayer ...) are tail calls, so the only continuation they need is   *)
(* ret, the place in playTurn that called movePlayer or handleSpace.       *)
(***************************************************************************)
EXTENDS Integers, Sequences, FiniteSets, TLC

\* ------------------------------------------------------------------------
\* Bounds of the model (not program constants)
\* ------------------------------------------------------------------------
\* Largest number of players of a game started from scratch (the program
\* accepts 2..8).
MaxPlayers == 2
\* Number of playTurn calls (top-level or recursive) followed from a game
\* right after setup, and from a position of a game in progress.
CallBound == 2
MidGameCallBound == 1
\* In an auction a bidder names either the largest legal bid (money - 1) or
\* the smallest legal raise (bid + 1); the smallest raise is offered only
\* while it does not exceed BidBound.
BidBound == 1
\* Largest amount used by the transfer harness.
MaxAmount == 4

\* ------------------------------------------------------------------------
\* Program constants
\* ------------------------------------------------------------------------
Null == 0
StartMoney == 1500
GoBonus == 200
JailFine == 50
JailIndex == 10
JailSentence == 3
GoToJailDelta == 20
DiceSides == 6
DoublesLimit == 3
MaxBuildAttempts == 50
MaxTurns == 1000
StationPrice == 200
UtilityPrice == 150
StationRent == <<25, 50, 100, 200>>
\* enum class PropertyRent
FULL_GROUP == 0
HOTEL == 5
BASE_RENT == 6

createBoard ==
  << [kind |-> "Go"],
     [kind |-> "Property", color |-> "PURPLE", price |-> 60, housePrice |-> 50, rent |-> <<4, 10, 30, 90, 160, 250, 2>>],
     [kind |-> "CommunityChest"],
     [kind |-> "Property", color |-> "PURPLE", price |-> 60, housePrice |-> 50, rent |-> <<8, 20, 60, 180, 320, 450, 4>>],
     [kind |-> "Tax", amount |-> 200],
     [kind |-> "Station", price |-> StationPrice, rent |-> StationRent],
     [kind |-> "Property", color |-> "LIGHT_BLUE", price |-> 100, housePrice |-> 50, rent |-> <<12, 30, 90, 270, 400, 550, 6>>],
     [kind |-> "Chance"],
     [kind |-> "Property", color |-> "LIGHT_BLUE", price |-> 100, housePrice |-> 50, rent |-> <<12, 30, 90, 270, 400, 550, 6>>],
     [kind |-> "Property", color |-> "LIGHT_BLUE", price |-> 120, housePrice |-> 50, rent |-> <<16, 40, 100, 300, 450, 600, 8>>],
     [kind |-> "Jail"],
     [kind |-> "Property", color |-> "PINK", price |-> 140, housePrice |-> 100, rent |-> <<20, 50, 150, 450, 625, 750, 10>>],
     [kind |-> "Utility", price |-> UtilityPrice],
     [kind |-> "Property", color |-> "PINK", price |-> 140, housePrice |-> 100, rent |-> <<20, 50, 150, 450, 625, 750, 10>>],
     [kind |-> "Property", color |-> "PINK", price |-> 160, housePrice |-> 100, rent |-> <<24, 60, 180, 500, 700, 900, 12>>],
     [kind |-> "Station", price |-> StationPrice, rent |-> StationRent],
     [kind |-> "Property", color |-> "ORANGE", price |-> 180, housePrice |-> 100, rent |-> <<28, 70, 200, 550, 750, 950, 14>>],
     [kind |-> "CommunityChest"],
     [kind |-> "Property", color |-> "ORANGE", price |-> 180, housePrice |-> 100, rent |-> <<28, 70, 200, 550, 750, 950, 14>>],
     [kind |-> "Property", color |-> "ORANGE", price |-> 200, housePrice |-> 100, rent |-> <<32, 80, 220, 600, 800, 1000, 16>>],
     [kind |-> "FreeParking"],
     [kind |-> "Property", color |-> "RED", price |-> 220, housePrice |-> 150, rent |-> <<36, 90, 250, 700, 875, 1050, 18>>],
     [kind |-> "Chance"],
     [kind |-> "Property", color |-> "RED", price |-> 220, housePrice |-> 150, rent |-> <<36, 90, 250, 700, 875, 1050, 18>>],
     [kind |-> "Property", color |-> "RED", price |-> 240, housePrice |-> 150, rent |-> <<40, 100, 300, 750, 925, 1100, 20>>],
     [kind |-> "Station", price |-> StationPrice, rent |-> StationRent],
     [kind |-> "Property", color |-> "YELLOW", price |-> 260, housePrice |-> 150, rent |-> <<44, 110, 330, 800, 975, 1150, 22>>],
     [kind |-> "Property", color |-> "YELLOW", price |-> 260, housePrice |-> 150, rent |-> <<44, 110, 330, 800, 975, 1150, 22>>],
     [kind |-> "Utility", price |-> UtilityPrice],
     [kind |-> "Property", color |-> "YELLOW", price |-> 280, housePrice |-> 150, rent |-> <<48, 120, 360, 850, 1025, 1200, 24>>],
     [kind |-> "GoToJail"],
     [kind |-> "Property", color |-> "GREEN", price |-> 300, housePrice |-> 200, rent |-> <<52, 130, 390, 900, 1100, 1275, 26>>],
     [kind |-> "Property", color |-> "GREEN", price |-> 300, housePrice |-> 200, rent |-> <<52, 130, 390, 900, 1100, 1275, 26>>],
     [kind |-> "CommunityChest"],
     [kind |-> "Property", color |-> "GREEN", price |-> 320, housePrice |-> 200, rent |-> <<56, 150, 450, 1000, 1200, 1400, 28>>],
     [kind |-> "Station", price |-> StationPrice, rent |-> StationRent],
     [kind |-> "Chance"],
     [kind |-> "Property", color |-> "BLUE", price |-> 350, housePrice |-> 200, rent |-> <<70, 175, 500, 1100, 1300, 1500, 35>>],
     [kind |-> "Tax", amount |-> 100],
     [kind |-> "Property", color |-> "BLUE", price |-> 400, housePrice |-> 200, rent |-> <<100, 200, 600, 1400, 1700, 2000, 50>>] >>

CommunityChestDescriptions ==
  << <<"G","e","t"," ","o","u","t"," ","o","f"," ","J","a","i","l"," ","F","r","e","e","."," ","T","h","i","s"," ","c","a","r","d"," ","m","a","y"," ","b","e"," ","k","e","p","t"," ","u","n","t","i","l"," ","n","e","e","d","e","d">>,
     <<"A","d","v","a","n","c","e"," ","t","o"," ","G","o">>,
     <<"R","e","c","e","i","v","e"," ","y","o","u","r"," ","a","n","n","u","a","l"," ","i","n","c","o","m","e"," ","o","f"," ","1","0","0","E">>,
     <<"G","o"," ","t","o"," ","J","a","i","l","."," ","D","o"," ","n","o","t"," ","p","a","s","s"," ","G","o","."," ","D","o"," ","n","o","t"," ","c","o","l","l","e","c","t"," ","2","0","0","E">>,
     <<"Y","o","u"," ","h","a","v","e"," ","w","o","n"," ","s","e","c","o","n","d"," ","p","r","i","z","e"," ","i","n"," ","a"," ","b","e","a","u","t","y"," ","c","o","n","t","e","s","t","."," ","C","o","l","l","e","c","t"," ","1","0","E">>,
     <<"G","o"," ","b","a","c","k"," ","t","o"," ","B","e","l","l","e","v","i","l","l","e">>,
     <<"P","a","y"," ","a"," ","f","i","n","e"," ","o","f"," ","1","0","E"," ","o","r"," ","d","r","a","w"," ","a"," ","C","h","a","n","c","e"," ","c","a","r","d">>,
     <<"T","h","e"," ","s","a","l","e"," ","o","f"," ","y","o","u","r"," ","s","t","o","c","k"," ","e","a","r","n","s"," ","y","o","u"," ","5","0","E">>,
     <<"P","a","y"," ","t","h","e"," ","d","o","c","t","o","r","'","s"," ","f","e","e"," ","o","f"," ","5","0","E">>,
     <<"P","a","y"," ","y","o","u","r"," ","h","o","s","p","i","t","a","l"," ","f","e","e"," ","o","f"," ","1","0","0","E">>,
     <<"B","a","n","k"," ","e","r","r","o","r"," ","i","n"," ","y","o","u","r"," ","f","a","v","o","r","."," ","C","o","l","l","e","c","t"," ","2","0","0","E">>,
     <<"R","e","c","e","i","v","e"," ","y","o","u","r"," ","7","%"," ","i","n","t","e","r","e","s","t"," ","o","n"," ","l","o","a","n",":"," ","2","5","E">>,
     <<"T","h","e"," ","c","o","n","t","r","i","b","u","t","i","o","n","s"," ","r","e","i","m","b","u","r","s","e"," ","y","o","u"," ","t","h","e"," ","a","m","o","u","n","t"," ","o","f"," ","2","0","E">>,
     <<"Y","o","u"," ","i","n","h","e","r","i","t"," ","1","0","0","E">>,
     <<"P","a","y"," ","y","o","u","r"," ","I","n","s","u","r","a","n","c","e"," ","P","r","e","m","i","u","m"," ","o","f"," ","5","0","E">>,
     <<"I","t","'","s"," ","y","o","u","r"," ","b","i","r","t","h","d","a","y",","," ","e","a","c","h"," ","p","l","a","y","e","r"," ","m","u","s","t"," ","g","i","v","e"," ","y","o","u"," ","1","0","E">> >>

createCommunityChestDeck ==
  << [effect |-> "gojfc"],
     [effect |-> "goto", target |-> 0],
     [effect |-> "receive", amount |-> 100],
     [effect |-> "jail"],
     [effect |-> "receive", amount |-> 10],
     [effect |-> "goto", target |-> 1],
     [effect |-> "fineOrChance", amount |-> 10],
     [effect |-> "receive", amount |-> 50],
     [effect |-> "pay", amount |-> 50],
     [effect |-> "pay", amount |-> 100],
     [effect |-> "receive", amount |-> 200],
     [effect |-> "receive", amount |-> 25],
     [effect |-> "receive", amount |-> 20],
     [effect |-> "receive", amount |-> 100],
     [effect |-> "pay", amount |-> 50],
     [effect |-> "birthday", amount |-> 10] >>

ChanceDescriptions ==
  << <<"M","a","k","e"," ","r","e","p","a","i","r","s"," ","t","o"," ","a","l","l"," ","y","o","u","r"," ","h","o","u","s","e","s","."," ","P","a","y"," ","2","5","E"," ","f","o","r"," ","e","a","c","h"," ","h","o","u","s","e"," ","a","n","d"," ","1","0","0","E"," ","f","o","r"," ","e","a","c","h"," ","h","o","t","e","l">>,
     <<"Y","o","u"," ","w","o","n"," ","t","h","e"," ","c","r","o","s","s","w","o","r","d"," ","p","r","i","z","e","."," ","R","e","c","e","i","v","e"," ","1","0","0","E">>,
     <<"F","i","n","e"," ","f","o","r"," ","d","r","u","n","k","e","n","n","e","s","s","."," ","P","a","y"," ","2","0","E">>,
     <<"G","o"," ","t","o"," ","A","v","e","n","u","e"," ","H","e","n","r","i","-","M","a","r","t","i","n","."," ","I","f"," ","y","o","u"," ","p","a","s","s"," ","G","o",","," ","c","o","l","l","e","c","t"," ","2","0","0","E">>,
     <<"T","h","e"," ","b","a","n","k"," ","p","a","y","s"," ","y","o","u"," ","a"," ","d","i","v","i","d","e","n","d"," ","o","f"," ","5","0","E">>,
     <<"G","o"," ","t","o"," ","L","y","o","n"," ","S","t","a","t","i","o","n","."," ","I","f"," ","y","o","u"," ","p","a","s","s"," ","G","o",","," ","c","o","l","l","e","c","t"," ","2","0","0","E">>,
     <<"A","d","v","a","n","c","e"," ","t","o"," ","B","o","u","l","e","v","a","r","d"," ","d","e"," ","l","a"," ","V","i","l","l","e","t","t","e","."," ","I","f"," ","y","o","u"," ","p","a","s","s"," ","G","o",","," ","c","o","l","l","e","c","t"," ","2","0","0","E">>,
     <<"G","o"," ","t","o"," ","R","u","e"," ","d","e"," ","l","a"," ","P","a","i","x">>,
     <<"G","e","t"," ","o","u","t"," ","o","f"," ","J","a","i","l"," ","F","r","e","e","."," ","T","h","i","s"," ","c","a","r","d"," ","m","a","y"," ","b","e"," ","k","e","p","t"," ","u","n","t","i","l"," ","n","e","e","d","e","d">>,
     <<"G","o"," ","t","o"," ","J","a","i","l","."," ","D","o"," ","n","o","t"," ","p","a","s","s"," ","G","o","."," ","D","o"," ","n","o","t"," ","c","o","l","l","e","c","t"," ","2","0","0","E">>,
     <<"S","p","e","e","d","i","n","g"," ","f","i","n","e","."," ","P","a","y"," ","1","5","E">>,
     <<"Y","o","u"," ","a","r","e"," ","t","a","x","e","d"," ","f","o","r"," ","r","o","a","d"," ","r","e","p","a","i","r","s"," ","a","t"," ","a"," ","r","a","t","e"," ","o","f"," ","4","0","E"," ","p","e","r"," ","h","o","u","s","e"," ","a","n","d"," ","1","1","5","E"," ","p","e","r"," ","h","o","t","e","l">>,
     <<"M","o","v","e"," ","b","a","c","k"," ","t","h","r","e","e"," ","s","p","a","c","e","s">>,
     <<"Y","o","u","r"," ","p","r","o","p","e","r","t","y"," ","a","n","d"," ","l","o","a","n"," ","a","r","e"," ","p","a","y","i","n","g"," ","o","f","f","."," ","Y","o","u"," ","m","u","s","t"," ","r","e","c","e","i","v","e"," ","1","5","0","E">>,
     <<"P","a","y"," ","f","o","r"," ","t","u","i","t","i","o","n"," ","f","e","e","s"," ","1","5","0","E">>,
     <<"A","d","v","a","n","c","e"," ","t","o"," ","G","o">> >>

createChanceDeck ==
  << [effect |-> "repairs", house |-> 25, hotel |-> 100],
     [effect |-> "receive", amount |-> 100],
     [effect |-> "pay", amount |-> 20],
     [effect |-> "goto", target |-> 24],
     [effect |-> "receive", amount |-> 50],
     [effect |-> "goto", target |-> 15],
     [effect |-> "goto", target |-> 11],
     [effect |-> "goto", target |-> 39],
     [effect |-> "gojfc"],
     [effect |-> "jail"],
     [effect |-> "pay", amount |-> 15],
     [effect |-> "repairs", house |-> 40, hotel |-> 115],
     [effect |-> "move", delta |-> -3],
     [effect |-> "receive", amount |-> 150],
     [effect |-> "pay", amount |-> 150],
     [effect |-> "goto", target |-> 0] >>

BoardSize == Len(createBoard)
Positions == 0 .. (BoardSize - 1)
SpaceAt(pos) == createBoard[pos + 1]
KindAt == [pos \in Positions |-> createBoard[pos + 1].kind]
IsBuyable(pos) == KindAt[pos] \in {"Property", "Station", "Utility"}
BuyableIdx == {i \in Positions : IsBuyable(i)}
PropertyIdx == {i \in Positions : KindAt[i] = "Property"}
Colors == {SpaceAt(i).color : i \in PropertyIdx}
\* BoardManager::properties: the properties of one colour
properties == [color \in Colors |-> {i \in PropertyIdx : SpaceAt(i).color = color}]
GroupOf(color) == properties[color]

\* std::string::find(needle) != npos, case-sensitive, on character sequences
FindFrom(hay, needle, k) ==
  \A j \in 1 .. Len(needle) : hay[k + j - 1] = needle[j]
Contains(hay, needle) ==
  \E k \in 1 .. (Len(hay) - Len(needle) + 1) : FindFrom(hay, needle, k)
GOJFCNeedle ==
  <<"G","e","t"," ","O","u","t"," ","o","f"," ","J","a","i","l"," ","F","r","e","e">>
\* per card of each deck: does the description match the search string
ChanceLooksGOJFC ==
  [c \in 1 .. Len(createChanceDeck) |-> Contains(ChanceDescriptions[c], GOJFCNeedle)]
CommunityChestLooksGOJFC ==
  [c \in 1 .. Len(createCommunityChestDeck) |->
      Contains(CommunityChestDescriptions[c], GOJFCNeedle)]

\* player objects: those of the largest game started from scratch, and the
\* three of the three-player position below
Players == 1 .. (IF MaxPlayers > 3 THEN MaxPlayers ELSE 3)
Dice == 1 .. DiceSides

\* ------------------------------------------------------------------------
\* State
\* ------------------------------------------------------------------------
VARIABLES
  players,                 \* PlayerManager::players, the active list
  currentPlayer,           \* PlayerManager::currentPlayer
  money,                   \* Player::money, per player object
  position,                \* Player::position
  remainingTurnsInJail,    \* Player::remainingTurnsInJail
  nbStationsOwned,         \* Player::nbStationsOwned
  nbUtilitiesOwned,        \* Player::nbUtilitiesOwned
  hasChanceGOJFC,          \* Player::hasChanceGOJFC
  hasCommunityChestGOJFC,  \* Player::hasCommunityChestGOJFC
  owner,                   \* BuyableSpace::owner, per buyable board index
  nbBuildings,             \* Property::nbBuildings, per property board index
  chanceGOJFCTaken,        \* BoardManager::chanceGOJFCTaken
  communityChestGOJFCTaken,\* BoardManager::communityChestGOJFCTaken
  currentDicesValue,       \* BoardManager::currentDicesValue
  consecutiveDoubles,      \* GameCore::consecutiveDoubles
  turns,                   \* local of GameCore::startGame
  dicesValue,              \* local of GameCore::playTurn (copy of the roll)
  auctionPlayers,          \* local of auction(): candidates still in
  bid,                     \* local of auction(): current high bid
  highBidder,              \* the candidate who named bid (history, never read)
  buildColor,              \* colour chosen in the build phase of playTurn
  attempts,                \* parameter of BoardManager::buildOnProperties
  pc,                      \* where the thread of control is
  depth,                   \* number of playTurn frames on the stack
  ret,                     \* where playTurn resumes after the space is resolved
  turnPlayer,              \* the player whose top-level turn was announced last
  calls,                   \* playTurn calls the run may still follow
  call                     \* arguments and pre-state of the last movePlayer /
                           \* transferMoneyFromTo call (history, never read)

playerVars == <<money, position, remainingTurnsInJail, nbStationsOwned,
                nbUtilitiesOwned, hasChanceGOJFC, hasCommunityChestGOJFC>>
boardVars == <<owner, nbBuildings, chanceGOJFCTaken, communityChestGOJFCTaken,
               currentDicesValue>>
managerVars == <<players, currentPlayer>>
coreVars == <<consecutiveDoubles, turns, dicesValue>>
auctionVars == <<auctionPlayers, bid, highBidder>>
buildVars == <<buildColor, attempts>>
controlVars == <<pc, depth, ret>>
vars == <<playerVars, boardVars, managerVars, coreVars, auctionVars, buildVars,
          controlVars, turnPlayer, calls, call>>

NoCall == [op |-> "none"]
NoDice == <<0, 0>>

\* ------------------------------------------------------------------------
\* PlayerManager
\* ------------------------------------------------------------------------
Range(s) == {s[i] : i \in 1 .. Len(s)}

\* std::distance(begin, std::find(begin, end, p)): 0-based, Len when absent
IndexOf(list, p) ==
  IF p \in Range(list)
    THEN (CHOOSE i \in 1 .. Len(list) : list[i] = p /\ \A j \in 1 .. (i - 1) : list[j] # p) - 1
    ELSE Len(list)

\* addPlayer making every added player the current one
AddPlayerMakesCurrent(list, cur, p) ==
  [players |-> Append(list, p), currentPlayer |-> p]

\* PlayerManager::addPlayer on the list and the current player
AddPlayer(list, cur, p) ==
  [players |-> Append(list, p),
   currentPlayer |-> IF cur = Null THEN p ELSE cur]

\* startGame lines 34-40: players 1 .. n added to a new PlayerManager
RECURSIVE AddPlayers(_)
AddPlayers(n) ==
  IF n = 0
    THEN [players |-> <<>>, currentPlayer |-> Null]
    ELSE AddPlayer(AddPlayers(n - 1).players, AddPlayers(n - 1).currentPlayer, n)

\* setNextPlayer stepping over one player
NextPlayerSkipsOne(list, cur) == list[((IndexOf(list, cur) + 2) % Len(list)) + 1]

\* PlayerManager::setNextPlayer on a non-empty list
NextPlayer(list, cur) == list[((IndexOf(list, cur) + 1) % Len(list)) + 1]

\* PlayerManager::removePlayer: erase the first occurrence
RemovePlayer(list, p) ==
  IF p \in Range(list)
    THEN LET k == IndexOf(list, p) + 1
         IN  SubSeq(list, 1, k - 1) \o SubSeq(list, k + 1, Len(list))
    ELSE list

\* transferMoneyFromTo without the clamp of the debited balance
TransferMoneyFromToNoClamp(m, from, to, amount) ==
  LET debited == IF from # Null THEN [m EXCEPT ![from] = m[from] - amount] ELSE m
  IN  IF to # Null
        THEN [debited EXCEPT ![to] = debited[to] + amount]
        ELSE debited

\* transferMoneyFromTo crediting only what the payer could cover
TransferMoneyFromToPaidOnly(m, from, to, amount) ==
  LET paid == IF from # Null /\ m[from] < amount THEN m[from] ELSE amount
      debited == IF from # Null THEN [m EXCEPT ![from] = m[from] - paid] ELSE m
  IN  IF to # Null
        THEN [debited EXCEPT ![to] = debited[to] + paid]
        ELSE debited

\* PlayerManager::transferMoneyFromTo on the money of all players
TransferMoneyFromTo(m, from, to, amount) ==
  LET debited ==
        IF from # Null
          THEN [m EXCEPT ![from] = IF m[from] - amount < 0 THEN 0 ELSE m[from] - amount]
          ELSE m
  IN  IF to # Null
        THEN [debited EXCEPT ![to] = debited[to] + amount]
        ELSE debited

\* ------------------------------------------------------------------------
\* BoardManager helpers
\* ------------------------------------------------------------------------
RECURSIVE PowMod(_, _, _)
PowMod(b, e, m) == IF e = 0 THEN 1 % m ELSE (b * PowMod(b, e - 1, m)) % m

\* (position + distanceToGo) % board.size(): the int sum is converted to the
\* 64-bit unsigned type of board.size() before the remainder is taken
NewPosition(pos, distanceToGo) ==
  LET sum == pos + distanceToGo
  IN  IF sum >= 0
        THEN sum % BoardSize
        ELSE (PowMod(2, 64, BoardSize) + (sum % BoardSize)) % BoardSize

\* the pass-Go test without the jail condition
PassesGoInJail(pos, newPos, jail, distanceToGo) ==
  newPos < pos /\ distanceToGo > 0

\* the pass-Go test that does not count a stop on Go itself as a passage
PassesGoBeyond(pos, newPos, jail, distanceToGo) ==
  newPos < pos /\ newPos # 0 /\ jail = 0 /\ distanceToGo > 0

\* the pass-Go test of movePlayer
PassesGo(pos, newPos, jail, distanceToGo) ==
  newPos < pos /\ jail = 0 /\ distanceToGo > 0

\* colours whose properties are all owned by p
OwnedColors(own, p) == {c \in Colors : \A i \in GroupOf(c) : own[i] = p}

\* BoardManager::getOwnedGroups(p): the returned properties ...
OwnedGroups(own, p) == UNION {GroupOf(c) : c \in OwnedColors(own, p)}
\* the upgrade written without the test for the base level
UpgradeOwnedGroupsAlways(nb, own, p) ==
  [i \in PropertyIdx |-> IF i \in OwnedGroups(own, p) THEN FULL_GROUP ELSE nb[i]]

\* the upgrade given to every property the player owns, whole group or not
UpgradeOwnedProperties(nb, own, p) ==
  [i \in PropertyIdx |-> IF own[i] = p /\ nb[i] = BASE_RENT THEN FULL_GROUP ELSE nb[i]]

\* ... and its side effect on the building levels
UpgradeOwnedGroups(nb, own, p) ==
  LET owned == OwnedGroups(own, p)
  IN  IF \A i \in owned : nb[i] # BASE_RENT
        THEN nb
        ELSE [i \in PropertyIdx |->
                IF i \in owned /\ nb[i] = BASE_RENT THEN FULL_GROUP ELSE nb[i]]

\* a scan that removes the bankrupt player and leaves the player's spaces
RECURSIVE BankruptcyScanKeepsOwners(_, _, _, _)
BankruptcyScanKeepsOwners(i, list, own, nb) ==
  IF i >= Len(list)
    THEN [players |-> list, owner |-> own, nbBuildings |-> nb]
    ELSE LET p == list[i + 1]
         IN  IF money[p] = 0
               THEN BankruptcyScanKeepsOwners(i + 1, RemovePlayer(list, p), own, nb)
               ELSE BankruptcyScanKeepsOwners(i + 1, list, own, nb)

\* the bankruptcy scan of playTurn: for (i = 0; i < getNbPlayers(); i++)
RECURSIVE BankruptcyScan(_, _, _, _)
BankruptcyScan(i, list, own, nb) ==
  IF i >= Len(list)
    THEN [players |-> list, owner |-> own, nbBuildings |-> nb]
    ELSE LET p == list[i + 1]
         IN  IF money[p] = 0
               THEN BankruptcyScan(
                      i + 1,
                      RemovePlayer(list, p),
                      [s \in BuyableIdx |-> IF own[s] = p THEN Null ELSE own[s]],
                      [s \in PropertyIdx |-> IF own[s] = p THEN BASE_RENT ELSE nb[s]])
               ELSE BankruptcyScan(i + 1, list, own, nb)

\* ------------------------------------------------------------------------
\* Initial states: a game right after setup, and positions of a game in
\* progress (each with the play that leads to it from the setup)
\* ------------------------------------------------------------------------
\* startGame after the players were added: n players, nobody owns anything
NewGame(n) ==
  [ players  |-> AddPlayers(n).players,
    current  |-> AddPlayers(n).currentPlayer,
    money    |-> [p \in Players |-> StartMoney],
    position |-> [p \in Players |-> 0],
    jail     |-> [p \in Players |-> 0],
    stations |-> [p \in Players |-> 0],
    utilities |-> [p \in Players |-> 0],
    chance   |-> {},
    chest    |-> {},
    owner    |-> [s \in BuyableIdx |-> Null],
    levels   |-> [s \in PropertyIdx |-> BASE_RENT],
    dice     |-> NoDice,
    doubles  |-> 0,
    depth    |-> 0,
    calls    |-> CallBound ]

\* Player 1 won the auction of Rue Lecourbe (3) with a bid of 1450, later drew
\* "Go to Jail" from the community chest at 17, declined the fine and rolled
\* no double; player 2 paid the income tax, drew a dividend of 50 and is
\* visiting the jail.  Player 1 starts a turn in jail with exactly the fine.
InJailWithFine ==
  [ NewGame(2) EXCEPT
      !.calls = MidGameCallBound,
      !.money = [p \in Players |-> IF p = 1 THEN JailFine ELSE 1350],
      !.position = [p \in Players |-> IF p \in {1, 2} THEN JailIndex ELSE 0],
      !.jail = [p \in Players |-> IF p = 1 THEN 2 ELSE 0],
      !.owner = [s \in BuyableIdx |-> IF s = 3 THEN 1 ELSE Null],
      !.dice = <<1, 2>> ]

\* Player 1 rolled 3+4, landed on Chance (7) and drew the get-out-of-jail
\* card; it is player 2's first turn.
TokenHeld ==
  [ NewGame(2) EXCEPT
      !.calls = MidGameCallBound,
      !.current = 2,
      !.position = [p \in Players |-> IF p = 1 THEN 7 ELSE 0],
      !.chance = {1},
      !.dice = <<3, 4>> ]

\* Three players.  Player 2 won Rue Lecourbe (3) with a bid of 1490, player 3
\* won Gare Montparnasse (5) with a bid of 1490; all three then moved to the
\* jail space as visitors.  Player 1 is about to roll.
TwoPoorNeighbours ==
  [ NewGame(3) EXCEPT
      !.calls = MidGameCallBound,
      !.money = [p \in Players |-> IF p \in {2, 3} THEN 10 ELSE StartMoney],
      !.position = [p \in Players |-> JailIndex],
      !.stations = [p \in Players |-> IF p = 3 THEN 1 ELSE 0],
      !.owner = [s \in BuyableIdx |-> IF s = 3 THEN 2 ELSE IF s = 5 THEN 3 ELSE Null],
      !.dice = <<2, 3>> ]

\* Player 1 drew "Go to Avenue Henri-Martin" (24) on the first turn and bought
\* it for 240; player 2 drew the crossword prize on Chance (7).
BeforeGoToJail ==
  [ NewGame(2) EXCEPT
      !.calls = MidGameCallBound,
      !.money = [p \in Players |-> IF p = 1 THEN 1260 ELSE 1600],
      !.position = [p \in Players |-> IF p = 1 THEN 24 ELSE 7],
      !.owner = [s \in BuyableIdx |-> IF s = 24 THEN 1 ELSE Null],
      !.dice = <<3, 4>> ]

\* Late in a game: player 2 owns the blue group (37, 39) with hotels and Gare
\* Saint-Lazare (35); player 1 owns Boulevard de Belleville (1), has 260 left
\* and stands on 35.  Rue Lecourbe (3), the other purple property, is free.
LateGame ==
  [ NewGame(2) EXCEPT
      !.calls = MidGameCallBound,
      !.money = [p \in Players |-> IF p = 1 THEN 260 ELSE 500],
      !.position = [p \in Players |-> IF p = 1 THEN 35 ELSE 39],
      !.stations = [p \in Players |-> IF p = 2 THEN 1 ELSE 0],
      !.owner = [s \in BuyableIdx |->
                   IF s = 1 THEN 1 ELSE IF s \in {35, 37, 39} THEN 2 ELSE Null],
      !.levels = [s \in PropertyIdx |-> IF s \in {37, 39} THEN HOTEL ELSE BASE_RENT],
      !.dice = <<1, 3>> ]

\* In the middle of the first turn: player 1 rolled 1+1 (community chest,
\* "Bank error in your favor"), then 1+1 again (income tax), and the second
\* recursive playTurn call (counted in calls) is about to roll.
TwoDoublesRolled ==
  [ NewGame(2) EXCEPT
      !.calls = MidGameCallBound - 1,
      !.position = [p \in Players |-> IF p = 1 THEN 4 ELSE 0],
      !.dice = <<1, 1>>,
      !.doubles = 2,
      !.depth = 3 ]

\* Player 1 is in jail holding get-out-of-jail-free tokens.  Both tokens:
\* rolled 7 (Chance, the token), 10 (community chest at 17, the token) and 13
\* (Go To Jail), then rolled no double in the jail.  Chance token only: 7,
\* 13 (free parking), 10.  Community chest token only: 10 (visiting the
\* jail), 7, 13.  Player 2 paid the income tax (4), visited the jail and
\* rests on the free parking.
JailedWithTokens(chance, chest) ==
  [ NewGame(2) EXCEPT
      !.calls = MidGameCallBound,
      !.money = [p \in Players |-> IF p = 2 THEN 1300 ELSE StartMoney],
      !.position = [p \in Players |-> IF p = 1 THEN JailIndex ELSE IF p = 2 THEN 20 ELSE 0],
      !.jail = [p \in Players |-> IF p = 1 THEN 2 ELSE 0],
      !.chance = IF chance THEN {1} ELSE {},
      !.chest = IF chest THEN {1} ELSE {},
      !.dice = <<4, 6>> ]

\* Player 2 bought Gare Montparnasse (5) and Gare de Lyon (15) on the first
\* two turns; player 1 paid the income tax (4) and is visiting the jail.
TwoStationsOwned ==
  [ NewGame(2) EXCEPT
      !.calls = MidGameCallBound,
      !.money = [p \in Players |-> IF p = 1 THEN 1300 ELSE IF p = 2 THEN 1100 ELSE StartMoney],
      !.position = [p \in Players |-> IF p = 1 THEN JailIndex ELSE IF p = 2 THEN 15 ELSE 0],
      !.stations = [p \in Players |-> IF p = 2 THEN 2 ELSE 0],
      !.owner = [s \in BuyableIdx |-> IF s \in {5, 15} THEN 2 ELSE Null],
      !.dice = <<4, 6>> ]

\* Player 1 rolled 4+6 and is visiting the jail.  Player 2 rolled 6+6, bought
\* the Compagnie d'electricite (12), played again and rolled 3+5 onto the
\* free parking; the turn came back to player 2, who either rolled 3+5 and
\* bought the Compagnie des eaux (28), or rolled 4+6 onto Go To Jail,
\* declined the fine and rolled 1+2 in the jail.
UtilitiesOwned(both) ==
  [ NewGame(2) EXCEPT
      !.calls = MidGameCallBound,
      !.money = [p \in Players |->
                   IF p = 2 THEN StartMoney - (IF both THEN 2 ELSE 1) * UtilityPrice
                            ELSE StartMoney],
      !.position = [p \in Players |->
                      IF p = 1 THEN JailIndex
                      ELSE IF p = 2 THEN (IF both THEN 28 ELSE JailIndex) ELSE 0],
      !.jail = [p \in Players |-> IF p = 2 /\ ~both THEN 2 ELSE 0],
      !.utilities = [p \in Players |-> IF p = 2 THEN (IF both THEN 2 ELSE 1) ELSE 0],
      !.owner = [s \in BuyableIdx |->
                   IF s = 12 \/ (both /\ s = 28) THEN 2 ELSE Null],
      !.dice = IF both THEN <<3, 5>> ELSE <<1, 2>> ]

\* Player 1 owns the light blue group (6, 8, 9) with the given levels and
\* has m money; player 2 owns nothing.
GroupOwned(levels, m) ==
  [ NewGame(2) EXCEPT
      !.calls = MidGameCallBound,
      !.money = [p \in Players |-> IF p = 1 THEN m ELSE StartMoney],
      !.position = [p \in Players |-> IF p = 1 THEN 9 ELSE JailIndex],
      !.owner = [s \in BuyableIdx |-> IF s \in GroupOf("LIGHT_BLUE") THEN 1 ELSE Null],
      !.levels = [s \in PropertyIdx |->
                    IF s \in GroupOf("LIGHT_BLUE") THEN levels[s] ELSE BASE_RENT],
      !.dice = <<4, 6>> ]

\* Player 1 bought the Gare du Nord (25), won the auction of the Gare
\* Saint-Lazare (35) at 1200 and had 100 left.  Player 2 won the auction of
\* Rue Lecourbe (3) at 1450, went to jail and paid the fine with the last
\* 50: the jail turn returns before the bankruptcy scan, so player 2 is
\* still active with no money.  Player 1 then rolled 5+5 from 25 onto the
\* own station, and the recursive playTurn call (counted in calls) is about
\* to roll.
BothNearlyBroke ==
  [ NewGame(2) EXCEPT
      !.calls = MidGameCallBound - 1,
      !.money = [p \in Players |-> IF p = 1 THEN 100 ELSE IF p = 2 THEN 0 ELSE StartMoney],
      !.position = [p \in Players |-> IF p = 1 THEN 35 ELSE IF p = 2 THEN JailIndex ELSE 0],
      !.stations = [p \in Players |-> IF p = 1 THEN 2 ELSE 0],
      !.owner = [s \in BuyableIdx |->
                   IF s \in {25, 35} THEN 1 ELSE IF s = 3 THEN 2 ELSE Null],
      !.dice = <<5, 5>>,
      !.doubles = 1,
      !.depth = 2 ]

\* The late game with a third player, who stands next to player 2 with the
\* same money and owns nothing; player 1 holds the chance deck's
\* get-out-of-jail-free token.
LateGameOfThree ==
  [ LateGame EXCEPT
      !.players = AddPlayers(3).players,
      !.current = AddPlayers(3).currentPlayer,
      !.chance = {1} ]

\* Player 1 stands on Go with exactly the price of a station (200) left.
ExactPrice ==
  [ NewGame(2) EXCEPT
      !.calls = MidGameCallBound,
      !.money = [p \in Players |-> IF p = 1 THEN StationPrice ELSE StartMoney] ]

\* Player 1 rolled 1+1, landed on the community chest (2) and drew the
\* get-out-of-jail card, then rolled 3+5 (visiting the jail); it is player
\* 2's first turn.
ChestTokenHeld ==
  [ NewGame(2) EXCEPT
      !.calls = MidGameCallBound,
      !.current = 2,
      !.position = [p \in Players |-> IF p = 1 THEN 10 ELSE 0],
      !.chest = {1},
      !.dice = <<3, 5>> ]

Scenarios ==
  {NewGame(n) : n \in 2 .. MaxPlayers}
    \cup {InJailWithFine, TokenHeld, TwoPoorNeighbours, BeforeGoToJail, LateGame,
          TwoDoublesRolled, TwoStationsOwned}
    \cup {JailedWithTokens(TRUE, TRUE), JailedWithTokens(TRUE, FALSE),
          JailedWithTokens(FALSE, TRUE)}
    \cup {UtilitiesOwned(FALSE), UtilitiesOwned(TRUE)} \cup {BothNearlyBroke, LateGameOfThree, ExactPrice, ChestTokenHeld}

InitFrom(s) ==
  /\ players = s.players
  /\ currentPlayer = s.current
  /\ money = s.money
  /\ position = s.position
  /\ remainingTurnsInJail = s.jail
  /\ nbStationsOwned = s.stations
  /\ nbUtilitiesOwned = s.utilities
  /\ hasChanceGOJFC = [p \in Players |-> p \in s.chance]
  /\ hasCommunityChestGOJFC = [p \in Players |-> p \in s.chest]
  /\ owner = s.owner
  /\ nbBuildings = s.levels
  /\ chanceGOJFCTaken = (s.chance # {})
  /\ communityChestGOJFCTaken = (s.chest # {})
  /\ currentDicesValue = s.dice
  /\ consecutiveDoubles = s.doubles
  /\ turns = 0
  /\ dicesValue = NoDice
  /\ auctionPlayers = <<>>
  /\ bid = 0
  /\ highBidder = Null
  /\ buildColor = "none"
  /\ attempts = 0
  /\ pc = IF s.depth = 0 THEN "startGame" ELSE "playTurn"
  /\ depth = s.depth
  /\ ret = "none"
  /\ turnPlayer = IF s.depth = 0 THEN Null ELSE s.current
  /\ calls = s.calls
  /\ call = NoCall

Init == \E s \in Scenarios : InitFrom(s)

\* ------------------------------------------------------------------------
\* GameCore::startGame, the game loop
\* ------------------------------------------------------------------------
\* while (getNbPlayers() > 1 && turns < 1000) playTurn();
PlayNextTurn ==
  /\ pc = "startGame"
  /\ Len(players) > 1 /\ turns < MaxTurns
  /\ calls > 0
  /\ calls' = calls - 1
  /\ pc' = "playTurn"
  /\ depth' = 1
  /\ turnPlayer' = currentPlayer
  /\ UNCHANGED <<playerVars, boardVars, managerVars, coreVars, auctionVars,
                 buildVars, ret, call>>

GameOver ==
  /\ pc = "startGame"
  /\ ~(Len(players) > 1 /\ turns < MaxTurns)
  /\ pc' = "gameOver"
  /\ UNCHANGED <<playerVars, boardVars, managerVars, coreVars, auctionVars,
                 buildVars, depth, ret, turnPlayer, calls, call>>

\* "return" of a playTurn frame: the top-level frame returns into the game
\* loop (turns++), a recursive frame returns to line 96 of its caller, which
\* goes on with the bankruptcy scan
ReturnFromPlayTurn ==
  IF depth = 1
    THEN pc' = "startGame" /\ depth' = 0 /\ turns' = turns + 1
    ELSE pc' = "bankruptcy" /\ depth' = depth - 1 /\ turns' = turns

\* the turn is not passed on
StayOnPlayer(list) == currentPlayer' = currentPlayer

\* PlayerManager::setNextPlayer; the remainder by players.size() = 0 is
\* undefined behaviour (the process is killed by the division trap)
SetNextPlayerOrCrash(list) ==
  IF Len(list) = 0
    THEN currentPlayer' = currentPlayer
    ELSE currentPlayer' = NextPlayer(list, currentPlayer)

\* BoardManager::movePlayer up to its call of handleSpace; jail is the
\* player's remainingTurnsInJail at the time of the call
MovePlayer(distanceToGo, jail) ==
  LET p == currentPlayer
      newPosition == NewPosition(position[p], distanceToGo)
  IN  /\ call' = [op |-> "movePlayer", player |-> p, from |-> position[p],
                  distanceToGo |-> distanceToGo, money |-> money[p], jail |-> jail]
      /\ IF newPosition < 0 \/ newPosition >= BoardSize
           THEN /\ pc' = ret
                /\ UNCHANGED <<money, position>>
           ELSE /\ money' = IF PassesGo(position[p], newPosition, jail, distanceToGo)
                              THEN TransferMoneyFromTo(money, Null, p, GoBonus)
                              ELSE money
                /\ position' = [position EXCEPT ![p] = newPosition]
                /\ pc' = "handleSpace"

\* ------------------------------------------------------------------------
\* GameCore::playTurn, entry
\* ------------------------------------------------------------------------
PlayTurn ==
  /\ pc = "playTurn"
  /\ IF currentPlayer = Null
       THEN \* lines 60-64
            /\ SetNextPlayerOrCrash(players)
            /\ ReturnFromPlayTurn
            /\ UNCHANGED <<playerVars, boardVars, players, consecutiveDoubles,
                           dicesValue, auctionVars, buildVars, ret, turnPlayer, calls, call>>
       ELSE IF remainingTurnsInJail[currentPlayer] > 0
         THEN \* lines 67-68: handleSpace()
              /\ pc' = "handleSpace"
              /\ ret' = "jailTurnEnd"
              /\ UNCHANGED <<playerVars, boardVars, managerVars, coreVars,
                             auctionVars, buildVars, depth, turnPlayer, calls, call>>
         ELSE \* lines 72-76: rollDice(); movePlayer(first + second)
              \E d1 \in Dice, d2 \in Dice :
                /\ currentDicesValue' = <<d1, d2>>
                /\ dicesValue' = <<d1, d2>>
                /\ ret' = "afterMove"
                /\ MovePlayer(d1 + d2, remainingTurnsInJail[currentPlayer])
                /\ UNCHANGED <<remainingTurnsInJail, nbStationsOwned, nbUtilitiesOwned,
                               hasChanceGOJFC, hasCommunityChestGOJFC, owner,
                               nbBuildings, chanceGOJFCTaken, communityChestGOJFCTaken,
                               managerVars, consecutiveDoubles, turns, auctionVars,
                               buildVars, depth, turnPlayer, calls>>

\* line 69: setNextPlayer(); return;
JailTurnEnd ==
  /\ pc = "jailTurnEnd"
  /\ SetNextPlayerOrCrash(players)
  /\ ReturnFromPlayTurn
  /\ ret' = "none"
  /\ UNCHANGED <<playerVars, boardVars, players, consecutiveDoubles, dicesValue,
                 auctionVars, buildVars, turnPlayer, calls, call>>

\* ------------------------------------------------------------------------
\* BoardManager::handleSpace: the action of the space the current player
\* stands on.  An action that is over resumes playTurn at ret.
\* ------------------------------------------------------------------------
Here == SpaceAt(position[currentPlayer])

\* Go::action
LandOnGo ==
  /\ pc = "handleSpace" /\ Here.kind = "Go"
  /\ money' = TransferMoneyFromTo(money, Null, currentPlayer, GoBonus)
  /\ pc' = ret
  /\ UNCHANGED <<position, remainingTurnsInJail, nbStationsOwned, nbUtilitiesOwned,
                 hasChanceGOJFC, hasCommunityChestGOJFC, boardVars, managerVars,
                 coreVars, auctionVars, buildVars, depth, ret, turnPlayer, calls, call>>

\* FreeParking::action
LandOnFreeParking ==
  /\ pc = "handleSpace" /\ Here.kind = "FreeParking"
  /\ pc' = ret
  /\ UNCHANGED <<playerVars, boardVars, managerVars, coreVars, auctionVars,
                 buildVars, depth, ret, turnPlayer, calls, call>>

\* Tax::action
LandOnTax ==
  /\ pc = "handleSpace" /\ Here.kind = "Tax"
  /\ money' = TransferMoneyFromTo(money, currentPlayer, Null, Here.amount)
  /\ pc' = ret
  /\ UNCHANGED <<position, remainingTurnsInJail, nbStationsOwned, nbUtilitiesOwned,
                 hasChanceGOJFC, hasCommunityChestGOJFC, boardVars, managerVars,
                 coreVars, auctionVars, buildVars, depth, ret, turnPlayer, calls, call>>

\* GoToJail::action: setRemainingTurnsInJail(3); movePlayer(20)
LandOnGoToJail ==
  /\ pc = "handleSpace" /\ Here.kind = "GoToJail"
  /\ remainingTurnsInJail' = [remainingTurnsInJail EXCEPT ![currentPlayer] = JailSentence]
  /\ MovePlayer(GoToJailDelta, JailSentence)
  /\ UNCHANGED <<nbStationsOwned, nbUtilitiesOwned, hasChanceGOJFC,
                 hasCommunityChestGOJFC, boardVars, managerVars, coreVars,
                 auctionVars, buildVars, depth, ret, turnPlayer, calls>>

\* the decrement restarting from the full sentence
ServeFromFullSentence(p) ==
  [remainingTurnsInJail EXCEPT ![p] = JailSentence - 1]

\* Jail::action, last statement: setRemainingTurnsInJail(getRemainingTurnsInJail() - 1)
ServeOneTurn(p) ==
  [remainingTurnsInJail EXCEPT ![p] = remainingTurnsInJail[p] - 1]

\* Jail::action: setRemainingTurnsInJail(0)
SetFree(p) == [remainingTurnsInJail EXCEPT ![p] = 0]

\* giving the token back without telling the board
ReleaseTokenKeepFlag(p) ==
  IF hasChanceGOJFC[p]
    THEN /\ hasChanceGOJFC' = [hasChanceGOJFC EXCEPT ![p] = FALSE]
         /\ UNCHANGED <<chanceGOJFCTaken, hasCommunityChestGOJFC,
                        communityChestGOJFCTaken>>
    ELSE /\ hasCommunityChestGOJFC' = [hasCommunityChestGOJFC EXCEPT ![p] = FALSE]
         /\ UNCHANGED <<communityChestGOJFCTaken, hasChanceGOJFC, chanceGOJFCTaken>>

\* Jail::action, the card is used: the chance token first, else the other
ReleaseToken(p) ==
  IF hasChanceGOJFC[p]
    THEN /\ hasChanceGOJFC' = [hasChanceGOJFC EXCEPT ![p] = FALSE]
         /\ chanceGOJFCTaken' = FALSE
         /\ UNCHANGED <<hasCommunityChestGOJFC, communityChestGOJFCTaken>>
    ELSE /\ hasCommunityChestGOJFC' = [hasCommunityChestGOJFC EXCEPT ![p] = FALSE]
         /\ communityChestGOJFCTaken' = FALSE
         /\ UNCHANGED <<hasChanceGOJFC, chanceGOJFCTaken>>

\* a Jail action that takes the fine from whatever the player has left
LandOnJailFineClamped ==
  /\ pc = "handleSpace" /\ Here.kind = "Jail"
  /\ pc' = ret
  /\ LET p == currentPlayer
         served == ServeOneTurn(p)
         freed == SetFree(p)
     IN  IF remainingTurnsInJail[p] > 0
           THEN \E useCard \in BOOLEAN, pay \in BOOLEAN, d1 \in Dice, d2 \in Dice :
                  IF (hasChanceGOJFC[p] \/ hasCommunityChestGOJFC[p]) /\ useCard
                    THEN /\ remainingTurnsInJail' = freed
                         /\ ReleaseToken(p)
                         /\ UNCHANGED <<money, currentDicesValue>>
                    ELSE IF pay
                      THEN /\ money' = TransferMoneyFromTo(money, p, Null, JailFine)
                           /\ remainingTurnsInJail' = freed
                           /\ UNCHANGED <<hasChanceGOJFC, hasCommunityChestGOJFC,
                                          chanceGOJFCTaken, communityChestGOJFCTaken,
                                          currentDicesValue>>
                      ELSE /\ currentDicesValue' = <<d1, d2>>
                           /\ remainingTurnsInJail' = IF d1 = d2 THEN freed ELSE served
                           /\ UNCHANGED <<money, hasChanceGOJFC, hasCommunityChestGOJFC,
                                          chanceGOJFCTaken, communityChestGOJFCTaken>>
           ELSE UNCHANGED <<money, remainingTurnsInJail, hasChanceGOJFC,
                            hasCommunityChestGOJFC, chanceGOJFCTaken,
                            communityChestGOJFCTaken, currentDicesValue>>
  /\ UNCHANGED <<position, nbStationsOwned, nbUtilitiesOwned, owner, nbBuildings,
                 managerVars, coreVars, auctionVars, buildVars, depth, ret,
                 turnPlayer, calls, call>>

\* Jail::action
LandOnJail ==
  /\ pc = "handleSpace" /\ Here.kind = "Jail"
  /\ pc' = ret
  /\ LET p == currentPlayer
         served == ServeOneTurn(p)
         freed == SetFree(p)
     IN  IF remainingTurnsInJail[p] > 0
           THEN \E useCard \in BOOLEAN, pay \in BOOLEAN, d1 \in Dice, d2 \in Dice :
                  IF (hasChanceGOJFC[p] \/ hasCommunityChestGOJFC[p]) /\ useCard
                    THEN /\ remainingTurnsInJail' = freed
                         /\ ReleaseToken(p)
                         /\ UNCHANGED <<money, currentDicesValue>>
                    ELSE IF pay
                      THEN /\ IF money[p] < JailFine
                                THEN /\ remainingTurnsInJail' = served
                                     /\ money' = money
                                ELSE /\ money' = TransferMoneyFromTo(money, p, Null, JailFine)
                                     /\ remainingTurnsInJail' = freed
                           /\ UNCHANGED <<hasChanceGOJFC, hasCommunityChestGOJFC,
                                          chanceGOJFCTaken, communityChestGOJFCTaken,
                                          currentDicesValue>>
                      ELSE /\ currentDicesValue' = <<d1, d2>>
                           /\ remainingTurnsInJail' = IF d1 = d2 THEN freed ELSE served
                           /\ UNCHANGED <<money, hasChanceGOJFC, hasCommunityChestGOJFC,
                                          chanceGOJFCTaken, communityChestGOJFCTaken>>
           ELSE UNCHANGED <<money, remainingTurnsInJail, hasChanceGOJFC,
                            hasCommunityChestGOJFC, chanceGOJFCTaken,
                            communityChestGOJFCTaken, currentDicesValue>>
  /\ UNCHANGED <<position, nbStationsOwned, nbUtilitiesOwned, owner, nbBuildings,
                 managerVars, coreVars, auctionVars, buildVars, depth, ret,
                 turnPlayer, calls, call>>

\* Chance::action and CommunityChest::action
LandOnChance ==
  /\ pc = "handleSpace" /\ Here.kind = "Chance"
  /\ pc' = "drawChanceCard"
  /\ UNCHANGED <<playerVars, boardVars, managerVars, coreVars, auctionVars,
                 buildVars, depth, ret, turnPlayer, calls, call>>

LandOnCommunityChest ==
  /\ pc = "handleSpace" /\ Here.kind = "CommunityChest"
  /\ pc' = "drawCommunityChestCard"
  /\ UNCHANGED <<playerVars, boardVars, managerVars, coreVars, auctionVars,
                 buildVars, depth, ret, turnPlayer, calls, call>>

\* rent of a property taken at the base level whatever is built on it
RentIgnoringBuildings(s) ==
  LET space == SpaceAt(s)
  IN  CASE space.kind = "Property" -> space.rent[BASE_RENT + 1]
        [] space.kind = "Station" -> space.rent[(nbStationsOwned[owner[s]] - 1) + 1]
        [] space.kind = "Utility" ->
             (currentDicesValue[1] + currentDicesValue[2])
               * (IF nbUtilitiesOwned[owner[s]] = 1 THEN 4 ELSE 10)

\* rent of a station indexed by the number of stations owned itself
RentStationByCount(s) ==
  LET space == SpaceAt(s)
      n == nbStationsOwned[owner[s]]
  IN  CASE space.kind = "Property" -> space.rent[nbBuildings[s] + 1]
        [] space.kind = "Station" -> space.rent[(IF n < 4 THEN n ELSE 3) + 1]
        [] space.kind = "Utility" ->
             (currentDicesValue[1] + currentDicesValue[2])
               * (IF nbUtilitiesOwned[owner[s]] = 1 THEN 4 ELSE 10)

\* rent of a utility multiplied by 4 however many utilities the owner holds
RentUtilityTimesFour(s) ==
  LET space == SpaceAt(s)
  IN  CASE space.kind = "Property" -> space.rent[nbBuildings[s] + 1]
        [] space.kind = "Station" -> space.rent[(nbStationsOwned[owner[s]] - 1) + 1]
        [] space.kind = "Utility" ->
             (currentDicesValue[1] + currentDicesValue[2]) * 4

\* rent of Property::action, Station::action, Utility::action
Rent(s) ==
  LET space == SpaceAt(s)
  IN  CASE space.kind = "Property" -> space.rent[nbBuildings[s] + 1]
        [] space.kind = "Station" -> space.rent[(nbStationsOwned[owner[s]] - 1) + 1]
        [] space.kind = "Utility" ->
             (currentDicesValue[1] + currentDicesValue[2])
               * (IF nbUtilitiesOwned[owner[s]] = 1 THEN 4 ELSE 10)

\* a buyable space that has an owner
LandOnOwned ==
  /\ pc = "handleSpace" /\ IsBuyable(position[currentPlayer])
  /\ owner[position[currentPlayer]] # Null
  /\ LET s == position[currentPlayer]
     IN  money' = IF owner[s] = currentPlayer
                    THEN money
                    ELSE TransferMoneyFromTo(money, currentPlayer, owner[s], Rent(s))
  /\ pc' = ret
  /\ UNCHANGED <<position, remainingTurnsInJail, nbStationsOwned, nbUtilitiesOwned,
                 hasChanceGOJFC, hasCommunityChestGOJFC, boardVars, managerVars,
                 coreVars, auctionVars, buildVars, depth, ret, turnPlayer, calls, call>>

\* ownership given without counting the station or utility
AcquireUncounted(p, s) ==
  /\ owner' = [owner EXCEPT ![s] = p]
  /\ UNCHANGED <<nbStationsOwned, nbUtilitiesOwned>>

\* ownership given to the player whose turn it is, whoever p is
AcquireForCurrentPlayer(p, s) ==
  /\ owner' = [owner EXCEPT ![s] = currentPlayer]
  /\ nbStationsOwned' = IF SpaceAt(s).kind = "Station"
                          THEN [nbStationsOwned EXCEPT ![currentPlayer] = @ + 1]
                          ELSE nbStationsOwned
  /\ nbUtilitiesOwned' = IF SpaceAt(s).kind = "Utility"
                           THEN [nbUtilitiesOwned EXCEPT ![currentPlayer] = @ + 1]
                           ELSE nbUtilitiesOwned

\* affectOwnership and the owned-count of the Station / Utility variants
Acquire(p, s) ==
  /\ owner' = [owner EXCEPT ![s] = p]
  /\ nbStationsOwned' = IF SpaceAt(s).kind = "Station"
                          THEN [nbStationsOwned EXCEPT ![p] = nbStationsOwned[p] + 1]
                          ELSE nbStationsOwned
  /\ nbUtilitiesOwned' = IF SpaceAt(s).kind = "Utility"
                           THEN [nbUtilitiesOwned EXCEPT ![p] = nbUtilitiesOwned[p] + 1]
                           ELSE nbUtilitiesOwned

\* a buyable space without owner: accepted and affordable
BuySpace ==
  /\ pc = "handleSpace" /\ IsBuyable(position[currentPlayer])
  /\ owner[position[currentPlayer]] = Null
  /\ ~(money[currentPlayer] < Here.price)
  /\ money' = TransferMoneyFromTo(money, currentPlayer, Null, Here.price)
  /\ Acquire(currentPlayer, position[currentPlayer])
  /\ pc' = ret
  /\ UNCHANGED <<position, remainingTurnsInJail, hasChanceGOJFC,
                 hasCommunityChestGOJFC, nbBuildings, chanceGOJFCTaken,
                 communityChestGOJFCTaken, currentDicesValue, managerVars, coreVars,
                 auctionVars, buildVars, depth, ret, turnPlayer, calls, call>>

\* declined, or accepted without the money: auction(board) starts
StartAuction ==
  /\ pc = "handleSpace" /\ IsBuyable(position[currentPlayer])
  /\ owner[position[currentPlayer]] = Null
  /\ auctionPlayers' = players
  /\ bid' = 0
  /\ highBidder' = Null
  /\ pc' = "auction"
  /\ UNCHANGED <<playerVars, boardVars, managerVars, coreVars, buildVars, depth,
                 ret, turnPlayer, calls, call>>

\* a bidder allowed to name all of their money
BidChoicesAllMoney(b, m) == {m}

\* the amounts a bidder with money m names above the high bid b
BidChoices(b, m) ==
  {m - 1} \cup (IF b + 1 <= BidBound /\ b + 1 <= m - 1 THEN {b + 1} ELSE {})

\* one pass of while (auctionPlayers.size() > 1)
AuctionRound ==
  /\ pc = "auction"
  /\ Len(auctionPlayers) > 1
  /\ LET candidate == Head(auctionPlayers)
         others == Tail(auctionPlayers)
     IN  IF money[candidate] - 1 <= bid
           THEN auctionPlayers' = others /\ UNCHANGED <<bid, highBidder>>
           ELSE \E answer \in BOOLEAN :
                  IF answer
                    THEN \E amount \in BidChoices(bid, money[candidate]) :
                           /\ bid' = amount
                           /\ highBidder' = candidate
                           /\ auctionPlayers' = Append(others, candidate)
                    ELSE auctionPlayers' = others /\ UNCHANGED <<bid, highBidder>>
  /\ UNCHANGED <<playerVars, boardVars, managerVars, coreVars, buildVars,
                 controlVars, turnPlayer, calls, call>>

\* after the loop: the winner pays the bid and gets the space
AuctionEnd ==
  /\ pc = "auction"
  /\ Len(auctionPlayers) = 1
  /\ LET winner == Head(auctionPlayers)
     IN  /\ money' = TransferMoneyFromTo(money, winner, Null, bid)
         /\ Acquire(winner, position[currentPlayer])
  /\ auctionPlayers' = <<>>
  /\ bid' = 0
  /\ highBidder' = Null
  /\ pc' = ret
  /\ UNCHANGED <<position, remainingTurnsInJail, hasChanceGOJFC,
                 hasCommunityChestGOJFC, nbBuildings, chanceGOJFCTaken,
                 communityChestGOJFCTaken, currentDicesValue, managerVars, coreVars,
                 buildVars, depth, ret, turnPlayer, calls, call>>

\* ------------------------------------------------------------------------
\* Cards: BoardManager::drawChanceCard / drawCommunityChestCard and the
\* effects of createChanceDeck / createCommunityChestDeck.  The shuffle makes
\* any card of the deck the top card.
\* ------------------------------------------------------------------------
\* "It's your birthday": every other active player, in list order, gives 10
RECURSIVE Birthday(_, _, _)
Birthday(m, i, amount) ==
  IF i > Len(players)
    THEN m
    ELSE Birthday(IF players[i] # currentPlayer
                    THEN TransferMoneyFromTo(m, players[i], currentPlayer, amount)
                    ELSE m,
                  i + 1, amount)

\* the two repair cards: houses and hotels on the groups getOwnedGroups returns
RECURSIVE SumOver(_, _)
SumOver(f, S) ==
  IF S = {} THEN 0 ELSE LET x == CHOOSE y \in S : TRUE IN f[x] + SumOver(f, S \ {x})

RepairCost(card, nb, own, p) ==
  LET perProperty ==
        [i \in OwnedGroups(own, p) |->
           IF nb[i] > FULL_GROUP /\ nb[i] < HOTEL THEN nb[i] * card.house
           ELSE IF nb[i] = HOTEL THEN card.hotel ELSE 0]
  IN  SumOver(perProperty, OwnedGroups(own, p))

\* the effect of a card for the current player; deck is "chance" or "chest"
CardEffect(card, deck) ==
  LET p == currentPlayer
  IN  CASE card.effect = "gojfc" ->
             /\ IF deck = "chance"
                  THEN /\ hasChanceGOJFC' = [hasChanceGOJFC EXCEPT ![p] = TRUE]
                       /\ chanceGOJFCTaken' = TRUE
                       /\ UNCHANGED <<hasCommunityChestGOJFC, communityChestGOJFCTaken>>
                  ELSE /\ hasCommunityChestGOJFC' =
                            [hasCommunityChestGOJFC EXCEPT ![p] = TRUE]
                       /\ communityChestGOJFCTaken' = TRUE
                       /\ UNCHANGED <<hasChanceGOJFC, chanceGOJFCTaken>>
             /\ pc' = ret
             /\ UNCHANGED <<money, position, remainingTurnsInJail, nbBuildings, call>>
        [] card.effect = "goto" ->
             /\ MovePlayer(BoardSize + card.target - position[p], remainingTurnsInJail[p])
             /\ UNCHANGED <<remainingTurnsInJail, hasChanceGOJFC, hasCommunityChestGOJFC,
                            chanceGOJFCTaken, communityChestGOJFCTaken, nbBuildings>>
        [] card.effect = "move" ->
             /\ MovePlayer(card.delta, remainingTurnsInJail[p])
             /\ UNCHANGED <<remainingTurnsInJail, hasChanceGOJFC, hasCommunityChestGOJFC,
                            chanceGOJFCTaken, communityChestGOJFCTaken, nbBuildings>>
        [] card.effect = "receive" ->
             /\ money' = TransferMoneyFromTo(money, Null, p, card.amount)
             /\ pc' = ret
             /\ UNCHANGED <<position, remainingTurnsInJail, hasChanceGOJFC,
                            hasCommunityChestGOJFC, chanceGOJFCTaken,
                            communityChestGOJFCTaken, nbBuildings, call>>
        [] card.effect = "pay" ->
             /\ money' = TransferMoneyFromTo(money, p, Null, card.amount)
             /\ pc' = ret
             /\ UNCHANGED <<position, remainingTurnsInJail, hasChanceGOJFC,
                            hasCommunityChestGOJFC, chanceGOJFCTaken,
                            communityChestGOJFCTaken, nbBuildings, call>>
        [] card.effect = "jail" ->
             \* setRemainingTurnsInJail(3); setPosition(10); handleSpace()
             /\ remainingTurnsInJail' = [remainingTurnsInJail EXCEPT ![p] = JailSentence]
             /\ position' = [position EXCEPT ![p] = JailIndex]
             /\ pc' = "handleSpace"
             /\ UNCHANGED <<money, hasChanceGOJFC, hasCommunityChestGOJFC,
                            chanceGOJFCTaken, communityChestGOJFCTaken, nbBuildings, call>>
        [] card.effect = "fineOrChance" ->
             /\ \E choice \in BOOLEAN :
                  IF choice
                    THEN pc' = "drawChanceCard" /\ money' = money
                    ELSE /\ money' = TransferMoneyFromTo(money, p, Null, card.amount)
                         /\ pc' = ret
             /\ UNCHANGED <<position, remainingTurnsInJail, hasChanceGOJFC,
                            hasCommunityChestGOJFC, chanceGOJFCTaken,
                            communityChestGOJFCTaken, nbBuildings, call>>
        [] card.effect = "birthday" ->
             /\ money' = Birthday(money, 1, card.amount)
             /\ pc' = ret
             /\ UNCHANGED <<position, remainingTurnsInJail, hasChanceGOJFC,
                            hasCommunityChestGOJFC, chanceGOJFCTaken,
                            communityChestGOJFCTaken, nbBuildings, call>>
        [] card.effect = "repairs" ->
             /\ nbBuildings' = UpgradeOwnedGroups(nbBuildings, owner, p)
             /\ money' = TransferMoneyFromTo(money, p, Null,
                           RepairCost(card, UpgradeOwnedGroups(nbBuildings, owner, p),
                                      owner, p))
             /\ pc' = ret
             /\ UNCHANGED <<position, remainingTurnsInJail, hasChanceGOJFC,
                            hasCommunityChestGOJFC, chanceGOJFCTaken,
                            communityChestGOJFCTaken, call>>

DrawChanceCard ==
  /\ pc = "drawChanceCard"
  /\ \E c \in 1 .. Len(createChanceDeck) :
       IF ChanceLooksGOJFC[c] /\ chanceGOJFCTaken
         THEN \* drawChanceCard(); return;  -- draw again
              UNCHANGED <<money, position, remainingTurnsInJail, hasChanceGOJFC,
                          hasCommunityChestGOJFC, chanceGOJFCTaken,
                          communityChestGOJFCTaken, nbBuildings, pc, call>>
         ELSE CardEffect(createChanceDeck[c], "chance")
  /\ UNCHANGED <<nbStationsOwned, nbUtilitiesOwned, owner, currentDicesValue,
                 managerVars, coreVars, auctionVars, buildVars, depth, ret, turnPlayer, calls>>

DrawCommunityChestCard ==
  /\ pc = "drawCommunityChestCard"
  /\ \E c \in 1 .. Len(createCommunityChestDeck) :
       IF CommunityChestLooksGOJFC[c] /\ chanceGOJFCTaken
         THEN \* drawCommunityChestCard(); return;  -- draw again
              UNCHANGED <<money, position, remainingTurnsInJail, hasChanceGOJFC,
                          hasCommunityChestGOJFC, chanceGOJFCTaken,
                          communityChestGOJFCTaken, nbBuildings, pc, call>>
         ELSE CardEffect(createCommunityChestDeck[c], "chest")
  /\ UNCHANGED <<nbStationsOwned, nbUtilitiesOwned, owner, currentDicesValue,
                 managerVars, coreVars, auctionVars, buildVars, depth, ret, turnPlayer, calls>>

\* ------------------------------------------------------------------------
\* GameCore::playTurn after movePlayer returned (line 77)
\* ------------------------------------------------------------------------
IsDouble == dicesValue[1] = dicesValue[2]

\* the third double with the sentence set and the player left where the
\* roll took them
ThirdDoubleStaysPut ==
  /\ pc = "afterMove" /\ IsDouble
  /\ consecutiveDoubles + 1 = DoublesLimit
  /\ consecutiveDoubles' = consecutiveDoubles + 1
  /\ remainingTurnsInJail' = [remainingTurnsInJail EXCEPT ![currentPlayer] = JailSentence]
  /\ pc' = "handleSpace"
  /\ ret' = "threeDoublesEnd"
  /\ dicesValue' = NoDice
  /\ UNCHANGED <<money, position, nbStationsOwned, nbUtilitiesOwned, hasChanceGOJFC,
                 hasCommunityChestGOJFC, boardVars, managerVars, turns, auctionVars,
                 buildVars, depth, turnPlayer, calls, call>>

\* lines 80-90: the third double
ThirdDouble ==
  /\ pc = "afterMove" /\ IsDouble
  /\ consecutiveDoubles + 1 = DoublesLimit
  /\ consecutiveDoubles' = consecutiveDoubles + 1
  /\ position' = [position EXCEPT ![currentPlayer] = JailIndex]
  /\ remainingTurnsInJail' = [remainingTurnsInJail EXCEPT ![currentPlayer] = JailSentence]
  /\ pc' = "handleSpace"
  /\ ret' = "threeDoublesEnd"
  /\ dicesValue' = NoDice
  /\ UNCHANGED <<money, nbStationsOwned, nbUtilitiesOwned, hasChanceGOJFC,
                 hasCommunityChestGOJFC, boardVars, managerVars, turns, auctionVars,
                 buildVars, depth, turnPlayer, calls, call>>

\* lines 87-89: setNextPlayer(); consecutiveDoubles = 0; return;
ThreeDoublesEnd ==
  /\ pc = "threeDoublesEnd"
  /\ SetNextPlayerOrCrash(players)
  /\ consecutiveDoubles' = 0
  /\ ReturnFromPlayTurn
  /\ ret' = "none"
  /\ UNCHANGED <<playerVars, boardVars, players, dicesValue, auctionVars,
                 buildVars, turnPlayer, calls, call>>

\* lines 92-93: a double, but the player is in jail now: return;
DoubleInJail ==
  /\ pc = "afterMove" /\ IsDouble
  /\ consecutiveDoubles + 1 # DoublesLimit
  /\ remainingTurnsInJail[currentPlayer] > 0
  /\ consecutiveDoubles' = consecutiveDoubles + 1
  /\ ReturnFromPlayTurn
  /\ ret' = "none"
  /\ dicesValue' = NoDice
  /\ UNCHANGED <<playerVars, boardVars, managerVars, auctionVars, buildVars,
                 turnPlayer, calls, call>>

\* lines 94-96: a double, free and solvent: playTurn();
DoublePlayAgain ==
  /\ pc = "afterMove" /\ IsDouble
  /\ consecutiveDoubles + 1 # DoublesLimit
  /\ remainingTurnsInJail[currentPlayer] = 0
  /\ money[currentPlayer] > 0
  /\ calls > 0
  /\ calls' = calls - 1
  /\ consecutiveDoubles' = consecutiveDoubles + 1
  /\ pc' = "playTurn"
  /\ depth' = depth + 1
  /\ ret' = "none"
  /\ dicesValue' = NoDice
  /\ UNCHANGED <<playerVars, boardVars, managerVars, turns, auctionVars, buildVars,
                 turnPlayer, call>>

\* a double, free, with no money: falls through to the bankruptcy scan
DoubleBankrupt ==
  /\ pc = "afterMove" /\ IsDouble
  /\ consecutiveDoubles + 1 # DoublesLimit
  /\ remainingTurnsInJail[currentPlayer] = 0
  /\ ~(money[currentPlayer] > 0)
  /\ consecutiveDoubles' = consecutiveDoubles + 1
  /\ pc' = "bankruptcy"
  /\ ret' = "none"
  /\ dicesValue' = NoDice
  /\ UNCHANGED <<playerVars, boardVars, managerVars, turns, auctionVars, buildVars,
                 depth, turnPlayer, calls, call>>

\* lines 99-102: no double; the build phase is offered to a solvent player
NoDouble ==
  /\ pc = "afterMove" /\ ~IsDouble
  /\ pc' = IF money[currentPlayer] > 0 THEN "build" ELSE "bankruptcy"
  /\ ret' = "none"
  /\ dicesValue' = NoDice
  /\ UNCHANGED <<playerVars, boardVars, managerVars, consecutiveDoubles, turns,
                 auctionVars, buildVars, depth, turnPlayer, calls, call>>

\* ------------------------------------------------------------------------
\* The build phase of playTurn (lines 121-204) and
\* BoardManager::buildOnProperties
\* ------------------------------------------------------------------------
\* colours offered: wholly owned, not all hotels (after getOwnedGroups)
Buildable(nb, own, p) ==
  {c \in OwnedColors(own, p) : \E i \in GroupOf(c) : nb[i] # HOTEL}

\* nothing to build on: break
BuildNothing ==
  /\ pc = "build"
  /\ Buildable(UpgradeOwnedGroups(nbBuildings, owner, currentPlayer), owner,
               currentPlayer) = {}
  /\ nbBuildings' = UpgradeOwnedGroups(nbBuildings, owner, currentPlayer)
  /\ pc' = "bankruptcy"
  /\ UNCHANGED <<playerVars, owner, chanceGOJFCTaken, communityChestGOJFCTaken,
                 currentDicesValue, managerVars, coreVars, auctionVars, buildVars,
                 depth, ret, turnPlayer, calls, call>>

\* "Do you want to build on a property?" answered n: break
BuildDecline ==
  /\ pc = "build"
  /\ Buildable(UpgradeOwnedGroups(nbBuildings, owner, currentPlayer), owner,
               currentPlayer) # {}
  /\ nbBuildings' = UpgradeOwnedGroups(nbBuildings, owner, currentPlayer)
  /\ pc' = "bankruptcy"
  /\ UNCHANGED <<playerVars, owner, chanceGOJFCTaken, communityChestGOJFCTaken,
                 currentDicesValue, managerVars, coreVars, auctionVars, buildVars,
                 depth, ret, turnPlayer, calls, call>>

\* answered y and a colour named: buildOnProperties(propertiesByColor[color], player)
BuildChoose ==
  /\ pc = "build"
  /\ \E color \in Buildable(UpgradeOwnedGroups(nbBuildings, owner, currentPlayer),
                            owner, currentPlayer) :
       buildColor' = color
  /\ attempts' = 0
  /\ nbBuildings' = UpgradeOwnedGroups(nbBuildings, owner, currentPlayer)
  /\ pc' = "buildOnProperties"
  /\ UNCHANGED <<playerVars, owner, chanceGOJFCTaken, communityChestGOJFCTaken,
                 currentDicesValue, managerVars, coreVars, auctionVars, depth, ret,
                 turnPlayer, calls, call>>

Min(a, b) == IF a < b THEN a ELSE b
SetMin(S) == CHOOSE x \in S : \A y \in S : x <= y
SetMax(S) == CHOOSE x \in S : \A y \in S : x >= y

\* properties[0]->getHousePrice()
HousePrice(color) == SpaceAt(SetMin(GroupOf(color))).housePrice

\* the cap tested one attempt late
TooManyAttemptsLate(a) == a > MaxBuildAttempts + 1

\* if (attempts > 50)
TooManyAttempts(a) == a > MaxBuildAttempts

\* if (attempts > 50) return;
BuildGiveUp ==
  /\ pc = "buildOnProperties"
  /\ TooManyAttempts(attempts)
  /\ pc' = "build"
  /\ buildColor' = "none"
  /\ attempts' = 0
  /\ UNCHANGED <<playerVars, boardVars, managerVars, coreVars, auctionVars, depth,
                 ret, turnPlayer, calls, call>>

\* std::min(5 - currentBuildingsOnProperty, player->getMoney() / housePrice)
MaxTheoretical(nb, m, p, price, i) == Min(5 - nb[i], m[p] \div price)

\* one round of buildOnProperties that accepts any difference between the
\* levels of a group
BuildOnPropertiesAnyDifference(nb, m, p, group, price, additional) ==
  LET target == [i \in group |-> nb[i] + additional[i]]
      totalNewBuildings == SumOver(additional, group)
  IN  IF totalNewBuildings * price > m[p]
        THEN [outcome |-> "rejected", money |-> m, nbBuildings |-> nb]
        ELSE [outcome |-> "built",
              money |-> TransferMoneyFromTo(m, p, Null, totalNewBuildings * price),
              nbBuildings |-> [i \in PropertyIdx |->
                                 IF i \in group THEN target[i] ELSE nb[i]]]

\* one round of buildOnProperties that accepts only equal levels
BuildOnPropertiesEqualOnly(nb, m, p, group, price, additional) ==
  LET target == [i \in group |-> nb[i] + additional[i]]
      totalNewBuildings == SumOver(additional, group)
  IN  IF SetMax({target[i] : i \in group}) - SetMin({target[i] : i \in group}) > 0
        THEN [outcome |-> "retry", money |-> m, nbBuildings |-> nb]
        ELSE IF totalNewBuildings * price > m[p]
          THEN [outcome |-> "rejected", money |-> m, nbBuildings |-> nb]
          ELSE [outcome |-> "built",
                money |-> TransferMoneyFromTo(m, p, Null, totalNewBuildings * price),
                nbBuildings |-> [i \in PropertyIdx |->
                                   IF i \in group THEN target[i] ELSE nb[i]]]

\* one round of questions of BoardManager::buildOnProperties and what it
\* decides: ask again, give the request up, or debit and build
BuildOnProperties(nb, m, p, group, price, additional) ==
  LET target == [i \in group |-> nb[i] + additional[i]]
      totalNewBuildings == SumOver(additional, group)
  IN  IF SetMax({target[i] : i \in group}) - SetMin({target[i] : i \in group}) > 1
        THEN [outcome |-> "retry", money |-> m, nbBuildings |-> nb]
        ELSE IF totalNewBuildings * price > m[p]
          THEN [outcome |-> "rejected", money |-> m, nbBuildings |-> nb]
          ELSE [outcome |-> "built",
                money |-> TransferMoneyFromTo(m, p, Null, totalNewBuildings * price),
                nbBuildings |-> [i \in PropertyIdx |->
                                   IF i \in group THEN target[i] ELSE nb[i]]]

\* buildOnProperties(properties, player, attempts) with attempts <= 50
BuildRequest ==
  /\ pc = "buildOnProperties"
  /\ ~TooManyAttempts(attempts)
  /\ LET p == currentPlayer
         group == GroupOf(buildColor)
         price == HousePrice(buildColor)
     IN  \E additional \in [group -> 0 .. HOTEL] :
           /\ \A i \in group :
                additional[i] <= MaxTheoretical(nbBuildings, money, p, price, i)
           /\ LET built == BuildOnProperties(nbBuildings, money, p, group, price,
                                             additional)
              IN  IF built.outcome = "retry"
                    THEN \* return buildOnProperties(properties, player, attempts + 1)
                         /\ attempts' = attempts + 1
                         /\ UNCHANGED <<money, nbBuildings, pc, buildColor>>
                    ELSE /\ pc' = "build"
                         /\ buildColor' = "none"
                         /\ attempts' = 0
                         /\ money' = built.money
                         /\ nbBuildings' = built.nbBuildings
  /\ UNCHANGED <<position, remainingTurnsInJail, nbStationsOwned, nbUtilitiesOwned,
                 hasChanceGOJFC, hasCommunityChestGOJFC, owner, chanceGOJFCTaken,
                 communityChestGOJFCTaken, currentDicesValue, managerVars, coreVars,
                 auctionVars, depth, ret, turnPlayer, calls, call>>

\* ------------------------------------------------------------------------
\* The end of playTurn (lines 207-234): bankruptcy scan, next player
\* ------------------------------------------------------------------------
EndOfTurn ==
  /\ pc = "bankruptcy"
  /\ LET scan == BankruptcyScan(0, players, owner, nbBuildings)
     IN  /\ players' = scan.players
         /\ owner' = scan.owner
         /\ nbBuildings' = scan.nbBuildings
         /\ IF Len(scan.players) = 0
              THEN \* setNextPlayer(): remainder by zero
                   /\ pc' = "crashed"
                   /\ UNCHANGED <<currentPlayer, consecutiveDoubles, depth, turns>>
              ELSE /\ currentPlayer' = NextPlayer(scan.players, currentPlayer)
                   /\ consecutiveDoubles' = 0
                   /\ ReturnFromPlayTurn
  /\ UNCHANGED <<playerVars, chanceGOJFCTaken, communityChestGOJFCTaken,
                 currentDicesValue, dicesValue, auctionVars, buildVars, ret,
                 turnPlayer, calls, call>>

\* ------------------------------------------------------------------------
\* Specifications
\* ------------------------------------------------------------------------
Next ==
  \/ PlayNextTurn
  \/ GameOver
  \/ PlayTurn
  \/ JailTurnEnd
  \/ LandOnGo
  \/ LandOnFreeParking
  \/ LandOnTax
  \/ LandOnGoToJail
  \/ LandOnJail
  \/ LandOnChance
  \/ LandOnCommunityChest
  \/ LandOnOwned
  \/ BuySpace
  \/ StartAuction
  \/ AuctionRound
  \/ AuctionEnd
  \/ DrawChanceCard
  \/ DrawCommunityChestCard
  \/ ThirdDouble
  \/ ThreeDoublesEnd
  \/ DoubleInJail
  \/ DoublePlayAgain
  \/ DoubleBankrupt
  \/ NoDouble
  \/ BuildNothing
  \/ BuildDecline
  \/ BuildChoose
  \/ BuildGiveUp
  \/ BuildRequest
  \/ EndOfTurn

Spec == Init /\ [][Next]_vars


\* ------------------------------------------------------------------------
\* PlayerManager::transferMoneyFromTo on its own: any balances up to
\* MaxAmount, any two distinct endpoints (a player or the bank), any amount
\* ------------------------------------------------------------------------
Endpoints == Players \cup {Null}

TransferInit ==
  \E m \in [Players -> 0 .. MaxAmount] :
    InitFrom([NewGame(MaxPlayers) EXCEPT !.money = m])

TransferStep ==
  /\ call = NoCall
  /\ \E from \in Endpoints, to \in Endpoints, amount \in 0 .. MaxAmount :
       /\ from # to
       /\ money' = TransferMoneyFromTo(money, from, to, amount)
       /\ call' = [op |-> "transferMoneyFromTo", from |-> from, to |-> to,
                   amount |-> amount, money |-> money]
  /\ UNCHANGED <<position, remainingTurnsInJail, nbStationsOwned, nbUtilitiesOwned,
                 hasChanceGOJFC, hasCommunityChestGOJFC, boardVars, managerVars,
                 coreVars, auctionVars, buildVars, controlVars, turnPlayer, calls>>

TransferNext == TransferStep

SpecTransfer == TransferInit /\ [][TransferNext]_vars

\* ------------------------------------------------------------------------
\* One round of BoardManager::buildOnProperties on its own: the light blue
\* group at any levels the build phase can find it in, a player with little
\* or enough money, any answers getNumber accepts
\* ------------------------------------------------------------------------
BuildLevels ==
  {l \in [GroupOf("LIGHT_BLUE") -> FULL_GROUP .. HOTEL] :
     \A i, j \in GroupOf("LIGHT_BLUE") : l[i] - l[j] <= 1}

BuildInit ==
  \E l \in BuildLevels, m \in {40, 300} : InitFrom(GroupOwned(l, m))

BuildStep ==
  /\ call = NoCall
  /\ LET p == currentPlayer
         group == GroupOf("LIGHT_BLUE")
         price == HousePrice("LIGHT_BLUE")
     IN  \E additional \in [group -> 0 .. HOTEL] :
           /\ \A i \in group :
                additional[i] <= MaxTheoretical(nbBuildings, money, p, price, i)
           /\ LET built == BuildOnProperties(nbBuildings, money, p, group, price,
                                             additional)
              IN  /\ money' = built.money
                  /\ nbBuildings' = built.nbBuildings
                  /\ call' = [op |-> "buildOnProperties", player |-> p,
                              additional |-> additional, outcome |-> built.outcome,
                              money |-> money, nbBuildings |-> nbBuildings]
  /\ UNCHANGED <<position, remainingTurnsInJail, nbStationsOwned, nbUtilitiesOwned,
                 hasChanceGOJFC, hasCommunityChestGOJFC, owner, chanceGOJFCTaken,
                 communityChestGOJFCTaken, currentDicesValue, managerVars, coreVars,
                 auctionVars, buildVars, controlVars, turnPlayer, calls>>

BuildNext == BuildStep

SpecBuild == BuildInit /\ [][BuildNext]_vars

\* ------------------------------------------------------------------------
\* PlayerManager on its own: players are added to a new manager, then
\* setNextPlayer and removePlayer are called in any order
\* ------------------------------------------------------------------------
PlayersInit ==
  InitFrom([NewGame(2) EXCEPT !.players = AddPlayers(0).players,
                              !.current = AddPlayers(0).currentPlayer])

AddPlayerStep ==
  /\ pc = "startGame"
  /\ call.op \in {"none", "addPlayer"}
  /\ \E p \in Players \ Range(players) :
       /\ players' = AddPlayer(players, currentPlayer, p).players
       /\ currentPlayer' = AddPlayer(players, currentPlayer, p).currentPlayer
       /\ call' = [op |-> "addPlayer", player |-> p, players |-> players,
                   currentPlayer |-> currentPlayer]
  /\ UNCHANGED <<playerVars, boardVars, coreVars, auctionVars, buildVars,
                 controlVars, turnPlayer, calls>>

SetNextPlayerStep ==
  /\ pc = "startGame"
  /\ call.op # "none"
  /\ SetNextPlayerOrCrash(players)
  /\ pc' = IF Len(players) = 0 THEN "crashed" ELSE pc
  /\ call' = [op |-> "setNextPlayer", players |-> players,
              currentPlayer |-> currentPlayer]
  /\ UNCHANGED <<playerVars, boardVars, players, coreVars, auctionVars, buildVars,
                 depth, ret, turnPlayer, calls>>

RemovePlayerStep ==
  /\ pc = "startGame"
  /\ \E p \in Range(players) :
       /\ players' = RemovePlayer(players, p)
       /\ call' = [op |-> "removePlayer", player |-> p, players |-> players,
                   currentPlayer |-> currentPlayer]
  /\ UNCHANGED <<playerVars, boardVars, currentPlayer, coreVars, auctionVars,
                 buildVars, controlVars, turnPlayer, calls>>

PlayersNext ==
  \/ AddPlayerStep
  \/ SetNextPlayerStep
  \/ RemovePlayerStep

SpecPlayers == PlayersInit /\ [][PlayersNext]_vars

\* ------------------------------------------------------------------------
\* Properties
\* ------------------------------------------------------------------------

\* C1: when a top-level playTurn of player P has returned to the game loop
\* (extra turns after doubles included) and P is still active, the current
\* player is the one that follows P in the active list: the pointer moved
\* exactly once.
C1_PointerAdvancesOnce ==
  (pc = "startGame" /\ turnPlayer # Null /\ turnPlayer \in Range(players))
    => currentPlayer = NextPlayer(players, turnPlayer)

\* C2: when the top-level playTurn of a player has returned and that player
\* has exactly 0 money, the player is no longer in the active list and owns
\* no space, whichever path playTurn took.
C2_BankruptRemovedOnEveryPath ==
  (pc = "startGame" /\ turnPlayer # Null /\ money[turnPlayer] = 0)
    => /\ turnPlayer \notin Range(players)
       /\ \A s \in BuyableIdx : owner[s] # turnPlayer

\* C3: one pass of the end-of-turn bankruptcy scan leaves no active player
\* with exactly 0 money, also when such players are neighbours in the list.
C3_ScanRemovesEveryBankrupt ==
  [][pc = "bankruptcy" => \A i \in 1 .. Len(players') : money'[players'[i]] # 0]_vars

\* C4: for each deck, at most one player holds its get-out-of-jail-free
\* token, in every reachable state.
C4_OneTokenPerDeck ==
  /\ Cardinality({p \in Players : hasChanceGOJFC[p]}) <= 1
  /\ Cardinality({p \in Players : hasCommunityChestGOJFC[p]}) <= 1

\* C5: whenever the turn passes to another player, the consecutive-doubles
\* counter is 0, so a player's doubles never count for somebody else.
C5_CounterZeroWhenTurnPasses ==
  [][currentPlayer' # currentPlayer => consecutiveDoubles' = 0]_vars

\* C6: the roll that is the current player's third consecutive double puts
\* the player on the jail space with 3 turns to serve, instead of moving the
\* player by the roll and resolving the space reached.
C6_ThirdDoubleGoesStraightToJail ==
  [][(pc = "playTurn" /\ dicesValue' # NoDice /\ dicesValue'[1] = dicesValue'[2]
        /\ consecutiveDoubles = DoublesLimit - 1)
       => /\ position'[currentPlayer] = JailIndex
          /\ remainingTurnsInJail'[currentPlayer] = JailSentence
          /\ pc' # "handleSpace"]_vars

\* C7: every player's money is >= 0 in every reachable state.
C7_MoneyNeverNegative == \A p \in Players : money[p] >= 0

\* a rent larger than the payer's balance has been settled: the payer has 0
C7_RentAboveBalanceSettled ==
  /\ pc = "afterMove"
  /\ call.op = "movePlayer" /\ call.player = currentPlayer
  /\ IsBuyable(position[currentPlayer])
  /\ owner[position[currentPlayer]] \notin {Null, currentPlayer}
  /\ Rent(position[currentPlayer]) > call.money + GoBonus
  /\ money[currentPlayer] = 0

\* C8: transferMoneyFromTo(from, to, amount) with amount >= 0 leaves a paying
\* player with max(0, money - amount), a receiving player with money + amount
\* (in full), and everybody else's money as it was; Null is the bank.
C8_TransferMoneyFromTo ==
  call.op = "transferMoneyFromTo" =>
    /\ call.from # Null =>
         money[call.from] = IF call.money[call.from] - call.amount > 0
                              THEN call.money[call.from] - call.amount
                              ELSE 0
    /\ call.to # Null => money[call.to] = call.money[call.to] + call.amount
    /\ \A p \in Players \ {call.from, call.to} : money[p] = call.money[p]

\* a payer who could not cover the amount paid a player, who got it in full
C8_ShortfallPaidInFull ==
  /\ call.op = "transferMoneyFromTo"
  /\ call.from # Null /\ call.to # Null
  /\ call.money[call.from] < call.amount
  /\ money[call.from] = 0
  /\ money[call.to] = call.money[call.to] + call.amount

\* C9: movePlayer(d) with d > 0 puts the current player on
\* (position + d) mod L and credits exactly 200 iff the new position is
\* smaller than the old one and the player has no jail turns left; with
\* d < 0 it credits nothing.  Nobody else's money changes.
C9_MovePlayer ==
  [][(call' # call /\ call'.op = "movePlayer")
       => LET p == call'.player
              d == call'.distanceToGo
          IN  /\ p = currentPlayer /\ call'.from = position[p]
              /\ d > 0 => position'[p] = (position[p] + d) % BoardSize
              /\ d > 0 => money'[p] =
                            IF position'[p] < position[p]
                                 /\ remainingTurnsInJail'[p] = 0
                              THEN money[p] + GoBonus
                              ELSE money[p]
              /\ d < 0 => money'[p] = money[p]
              /\ \A q \in Players \ {p} : money'[q] = money[q]]_vars

\* a free player has just been moved past Go and was credited the payout
C9_PassedGoCredited ==
  /\ pc = "handleSpace"
  /\ call.op = "movePlayer" /\ call.player = currentPlayer
  /\ call.distanceToGo > 0 /\ call.jail = 0
  /\ position[currentPlayer] = (call.from + call.distanceToGo) % BoardSize
  /\ position[currentPlayer] < call.from
  /\ position[currentPlayer] # 0
  /\ money[currentPlayer] = call.money + GoBonus

\* C10: a move with d > 0 of a player who is not in jail that wraps around
\* the board and ends on Go has raised the player's money by exactly 400
\* once the Go space is resolved.
C10_WrapOntoGoPays400 ==
  (/\ pc = "afterMove"
   /\ position[currentPlayer] = 0
   /\ call.op = "movePlayer" /\ call.player = currentPlayer
   /\ call.distanceToGo > 0 /\ call.jail = 0 /\ call.from > 0)
    => money[currentPlayer] = call.money + GoBonus + GoBonus

\* a roll from the last stretch of the board has ended exactly on Go
C10_RolledOntoGo ==
  /\ pc = "afterMove"
  /\ position[currentPlayer] = 0
  /\ call.op = "movePlayer" /\ call.player = currentPlayer
  /\ call.distanceToGo > 0 /\ call.distanceToGo <= DiceSides + DiceSides
  /\ call.jail = 0 /\ call.from > 0
  /\ money[currentPlayer] = call.money + GoBonus + GoBonus

\* C11: the step that resolves the Go To Jail space (index 30) leaves the
\* player on the jail space (index 10) and credits nothing, although the
\* move is movePlayer(20) and wraps past index 0.
C11_GoToJailNoPayout ==
  [][(pc = "handleSpace" /\ Here.kind = "GoToJail")
       => /\ position[currentPlayer] + GoToJailDelta >= BoardSize
          /\ position'[currentPlayer] = JailIndex
          /\ money' = money]_vars

\* the player has just been moved from Go To Jail to the jail, money untouched
C11_MovedToJail ==
  /\ pc = "handleSpace"
  /\ call.op = "movePlayer" /\ call.player = currentPlayer
  /\ KindAt[call.from] = "GoToJail" /\ call.distanceToGo = GoToJailDelta
  /\ position[currentPlayer] = JailIndex
  /\ money[currentPlayer] = call.money

\* C12: when the Go To Jail action is over (the move it makes and the space
\* action that move triggers included), the player has 3 turns to serve and
\* the money they had when the jailing began.
C12_GoToJailLeavesThreeTurns ==
  (/\ pc = "afterMove"
   /\ call.op = "movePlayer" /\ call.player = currentPlayer
   /\ KindAt[call.from] = "GoToJail" /\ call.distanceToGo = GoToJailDelta)
    => /\ remainingTurnsInJail[currentPlayer] = JailSentence
       /\ money[currentPlayer] = call.money

\* C13: a player who begins a turn with turns-remaining > 0 stands on the
\* jail and has only the Jail action resolved: until the turn is over no
\* position, owner, building level or active list changes, and the turn
\* then passes to the next player of the list.
C13_JailTurnOnlyJailAction ==
  [][/\ (pc = "playTurn" /\ remainingTurnsInJail[currentPlayer] > 0)
          => /\ pc' = "handleSpace" /\ ret' = "jailTurnEnd"
             /\ KindAt[position[currentPlayer]] = "Jail"
     /\ (ret = "jailTurnEnd" \/ ret' = "jailTurnEnd")
          => /\ position' = position
             /\ owner' = owner
             /\ nbBuildings' = nbBuildings
             /\ players' = players
     /\ (pc = "handleSpace" /\ ret = "jailTurnEnd")
          => pc' = "jailTurnEnd" /\ currentPlayer' = currentPlayer
     /\ pc = "jailTurnEnd"
          => currentPlayer' = NextPlayer(players, currentPlayer)]_vars

\* a jail turn that served one more turn is over and the next player is up
C13_JailTurnServed ==
  /\ pc = "startGame" /\ turnPlayer # Null
  /\ position[turnPlayer] = JailIndex
  /\ remainingTurnsInJail[turnPlayer] = 1
  /\ currentPlayer = NextPlayer(players, turnPlayer)
  /\ currentPlayer # turnPlayer

\* C14: a Jail action on a player with k > 0 turns remaining leaves 0 or
\* k - 1, whatever the answers and the dice; turns-remaining stays within
\* 0..3, so three Jail actions at most bring it to 0.
C14_JailActionCountsDown ==
  [][/\ \A p \in Players : remainingTurnsInJail'[p] \in 0 .. JailSentence
     /\ (pc = "handleSpace" /\ Here.kind = "Jail"
           /\ remainingTurnsInJail[currentPlayer] > 0)
          => remainingTurnsInJail'[currentPlayer]
               \in {0, remainingTurnsInJail[currentPlayer] - 1}]_vars

\* a Jail action has taken the second of three turns
C14_SecondTurnServed ==
  /\ pc = "jailTurnEnd"
  /\ position[currentPlayer] = JailIndex
  /\ remainingTurnsInJail[currentPlayer] = 1

\* C15: a Jail action in which a token is given back sets turns-remaining to
\* 0, clears exactly one token of the player and the board flag of the same
\* deck (the chance token when the player holds both) and changes no money
\* and no dice value.
C15_TokenUse ==
  [][(/\ pc = "handleSpace" /\ Here.kind = "Jail"
      /\ \/ hasChanceGOJFC' # hasChanceGOJFC
         \/ hasCommunityChestGOJFC' # hasCommunityChestGOJFC
         \/ chanceGOJFCTaken' # chanceGOJFCTaken
         \/ communityChestGOJFCTaken' # communityChestGOJFCTaken)
       => LET p == currentPlayer
          IN  /\ remainingTurnsInJail[p] > 0
              /\ remainingTurnsInJail' = [remainingTurnsInJail EXCEPT ![p] = 0]
              /\ money' = money
              /\ currentDicesValue' = currentDicesValue
              /\ IF hasChanceGOJFC[p]
                   THEN /\ hasChanceGOJFC' = [hasChanceGOJFC EXCEPT ![p] = FALSE]
                        /\ chanceGOJFCTaken' = FALSE
                        /\ hasCommunityChestGOJFC' = hasCommunityChestGOJFC
                        /\ communityChestGOJFCTaken' = communityChestGOJFCTaken
                   ELSE /\ hasCommunityChestGOJFC[p]
                        /\ hasCommunityChestGOJFC' =
                             [hasCommunityChestGOJFC EXCEPT ![p] = FALSE]
                        /\ communityChestGOJFCTaken' = FALSE
                        /\ hasChanceGOJFC' = hasChanceGOJFC
                        /\ chanceGOJFCTaken' = chanceGOJFCTaken]_vars

\* a player who held both tokens used one: the chance token is gone, the
\* community chest token is kept, nothing was paid and no dice were rolled
C15_ChanceTokenUsedFirst ==
  /\ pc = "jailTurnEnd"
  /\ remainingTurnsInJail[currentPlayer] = 0
  /\ ~hasChanceGOJFC[currentPlayer] /\ ~chanceGOJFCTaken
  /\ hasCommunityChestGOJFC[currentPlayer] /\ communityChestGOJFCTaken
  /\ money[currentPlayer] = StartMoney
  /\ currentDicesValue[1] # currentDicesValue[2]

\* C16: on an unowned purchasable space either the auction starts with
\* nothing bought (declined, or accepted without the money), or the player
\* had at least the price, pays exactly the price to the bank, becomes the
\* owner, and the owned-count of stations (utilities) grows by exactly 1 for
\* a Station (Utility); with money < price only the auction is possible.
C16_DirectPurchase ==
  [][(/\ pc = "handleSpace"
      /\ IsBuyable(position[currentPlayer])
      /\ owner[position[currentPlayer]] = Null)
       => LET p == currentPlayer
              s == position[currentPlayer]
              price == SpaceAt(s).price
          IN  \/ /\ pc' = "auction"
                 /\ UNCHANGED <<money, owner, nbStationsOwned, nbUtilitiesOwned>>
              \/ /\ pc' # "auction"
                 /\ money[p] >= price
                 /\ money' = [money EXCEPT ![p] = money[p] - price]
                 /\ owner' = [owner EXCEPT ![s] = p]
                 /\ nbStationsOwned' =
                      [nbStationsOwned EXCEPT
                         ![p] = IF KindAt[s] = "Station" THEN @ + 1 ELSE @]
                 /\ nbUtilitiesOwned' =
                      [nbUtilitiesOwned EXCEPT
                         ![p] = IF KindAt[s] = "Utility" THEN @ + 1 ELSE @]]_vars

\* the first station has just been bought at its price
C16_StationBought ==
  /\ pc = "afterMove"
  /\ KindAt[position[currentPlayer]] = "Station"
  /\ owner[position[currentPlayer]] = currentPlayer
  /\ nbStationsOwned[currentPlayer] = 1
  /\ call.op = "movePlayer" /\ call.player = currentPlayer
  /\ money[currentPlayer] = call.money - StationPrice

\* C17: in an auction every bid is higher than the one before and at most
\* the bidder's money minus 1, and the bidder goes to the back of the queue;
\* when an auction with at least one bid ends, the only candidate left is
\* the last bidder, who pays exactly the bid to the bank, keeps at least 1
\* and becomes the owner.
C17_AuctionWithBids ==
  [][/\ (pc = "auction" /\ pc' = "auction" /\ bid' # bid)
          => /\ bid' > bid
             /\ bid' <= money[Head(auctionPlayers)] - 1
             /\ highBidder' = Head(auctionPlayers)
             /\ auctionPlayers' = Append(Tail(auctionPlayers), highBidder')
     /\ (pc = "auction" /\ pc' # "auction" /\ bid > 0)
          => /\ auctionPlayers = <<highBidder>>
             /\ money' = [money EXCEPT ![highBidder] = money[highBidder] - bid]
             /\ money'[highBidder] >= 1
             /\ owner' = [owner EXCEPT ![position[currentPlayer]] = highBidder]]_vars

\* another player than the lander has won an auction with the highest bid
\* they could name
C17_OutbidTheLander ==
  /\ pc = "afterMove"
  /\ IsBuyable(position[currentPlayer])
  /\ owner[position[currentPlayer]] \notin {Null, currentPlayer}
  /\ call.op = "movePlayer" /\ call.player = currentPlayer
  /\ money[currentPlayer] = call.money
  /\ money[owner[position[currentPlayer]]] = 1
  /\ turns = 0 /\ depth = 1

\* C18: when an auction ends without any bid, the only candidate left is
\* the last player of the active list, who becomes the owner; nobody's
\* money changes.
C18_AuctionWithoutBids ==
  [][(pc = "auction" /\ pc' # "auction" /\ bid = 0)
       => LET last == players[Len(players)]
          IN  /\ auctionPlayers = <<last>>
              /\ money' = money
              /\ owner' = [owner EXCEPT ![position[currentPlayer]] = last]]_vars

\* the last player of a new game got the first auctioned space for nothing
C18_LastPlayerGotItFree ==
  /\ pc = "afterMove"
  /\ turns = 0 /\ depth = 1
  /\ IsBuyable(position[currentPlayer])
  /\ owner[position[currentPlayer]] = players[Len(players)]
  /\ owner[position[currentPlayer]] # currentPlayer
  /\ money[players[Len(players)]] = StartMoney
  /\ position[players[Len(players)]] = 0

\* C19: landing on a Property owned by another player credits the owner
\* with the entry of the property's rent table at its building level
\* (0 full group, 1..4 houses, 5 hotel, 6 base) and debits the lander by the
\* same amount, stopping at 0; nobody else's money changes.  With the table
\* [4,10,30,90,160,250,2] the hotel level gives 250.
C19_PropertyRent ==
  [][/\ SpaceAt(1).rent = <<4, 10, 30, 90, 160, 250, 2>>
     /\ SpaceAt(1).rent[HOTEL + 1] = 250
     /\ (/\ pc = "handleSpace"
         /\ KindAt[position[currentPlayer]] = "Property"
         /\ owner[position[currentPlayer]] \notin {Null, currentPlayer})
          => LET s == position[currentPlayer]
                 level == nbBuildings[s]
                 due == SpaceAt(s).rent[level + 1]
             IN  /\ level \in FULL_GROUP .. BASE_RENT
                 /\ money'[owner[s]] = money[owner[s]] + due
                 /\ money'[currentPlayer] =
                      IF money[currentPlayer] >= due
                        THEN money[currentPlayer] - due ELSE 0
                 /\ \A p \in Players \ {owner[s], currentPlayer} :
                      money'[p] = money[p]]_vars

\* the owner of a hotel has been credited with the hotel entry of the table
C19_HotelRentCredited ==
  /\ pc = "afterMove"
  /\ KindAt[position[currentPlayer]] = "Property"
  /\ owner[position[currentPlayer]] \notin {Null, currentPlayer}
  /\ nbBuildings[position[currentPlayer]] = HOTEL
  /\ call.op = "movePlayer" /\ call.player = currentPlayer
  /\ money[owner[position[currentPlayer]]] =
       LateGame.money[owner[position[currentPlayer]]]
         + SpaceAt(position[currentPlayer]).rent[HOTEL + 1]
  /\ money[currentPlayer] = 0

\* C20: landing on a Station owned by another player credits the owner with
\* the entry of [25,50,100,200] at (stations the owner holds - 1), 50 for two
\* stations, and debits the lander by the same amount, stopping at 0; for
\* every owned station that index is within 0..3 in every reachable state.
C20_StationRent ==
  /\ [](\A s \in BuyableIdx :
          (KindAt[s] = "Station" /\ owner[s] # Null)
            => nbStationsOwned[owner[s]] - 1 \in 0 .. 3)
  /\ [][/\ StationRent = <<25, 50, 100, 200>>
        /\ StationRent[(2 - 1) + 1] = 50
        /\ (/\ pc = "handleSpace"
            /\ KindAt[position[currentPlayer]] = "Station"
            /\ owner[position[currentPlayer]] \notin {Null, currentPlayer})
             => LET s == position[currentPlayer]
                    index == nbStationsOwned[owner[s]] - 1
                    due == StationRent[index + 1]
                IN  /\ SpaceAt(s).rent = StationRent
                    /\ index \in 0 .. 3
                    /\ money'[owner[s]] = money[owner[s]] + due
                    /\ money'[currentPlayer] =
                         IF money[currentPlayer] >= due
                           THEN money[currentPlayer] - due ELSE 0
                    /\ \A p \in Players \ {owner[s], currentPlayer} :
                         money'[p] = money[p]]_vars

\* the owner of two stations has been paid 50
C20_TwoStationsPaid50 ==
  /\ pc = "afterMove"
  /\ KindAt[position[currentPlayer]] = "Station"
  /\ owner[position[currentPlayer]] \notin {Null, currentPlayer}
  /\ nbStationsOwned[owner[position[currentPlayer]]] = 2
  /\ call.op = "movePlayer" /\ call.player = currentPlayer
  /\ money[owner[position[currentPlayer]]] =
       TwoStationsOwned.money[owner[position[currentPlayer]]] + 50
  /\ money[currentPlayer] = call.money - 50

\* C21: landing on a Utility owned by another player credits the owner with
\* (sum of the two dice rolled by the playTurn that moved the lander) times
\* 4 if the owner holds exactly one utility and times 10 otherwise, and
\* debits the lander by the same amount, stopping at 0.
C21_UtilityRent ==
  [][(/\ pc = "handleSpace"
      /\ KindAt[position[currentPlayer]] = "Utility"
      /\ owner[position[currentPlayer]] \notin {Null, currentPlayer})
       => LET s == position[currentPlayer]
              roll == dicesValue[1] + dicesValue[2]
              due == roll * (IF nbUtilitiesOwned[owner[s]] = 1 THEN 4 ELSE 10)
          IN  /\ ret = "afterMove"
              /\ roll \in 2 .. 2 * DiceSides
              /\ money'[owner[s]] = money[owner[s]] + due
              /\ money'[currentPlayer] =
                   IF money[currentPlayer] >= due
                     THEN money[currentPlayer] - due ELSE 0
              /\ \A p \in Players \ {owner[s], currentPlayer} :
                   money'[p] = money[p]]_vars

\* the owner of both utilities has been paid ten times a roll of 1+1
C21_BothUtilitiesPaidTenfold ==
  /\ pc = "afterMove"
  /\ KindAt[position[currentPlayer]] = "Utility"
  /\ owner[position[currentPlayer]] \notin {Null, currentPlayer}
  /\ nbUtilitiesOwned[owner[position[currentPlayer]]] = 2
  /\ dicesValue = <<1, 1>>
  /\ money[owner[position[currentPlayer]]] =
       UtilitiesOwned(TRUE).money[owner[position[currentPlayer]]] + 20
  /\ money[currentPlayer] = StartMoney - 20

\* C22: a step of a buildOnProperties request either changes no money and
\* no building level, or (only while the retry cap is not exceeded) ends the
\* request, debits the player once by the house price times the number of
\* buildings added, which is at most the player's money, and leaves every
\* property of the group at or above its old level, none above hotel, the
\* levels of the group at most one step apart, every other property as it
\* was.
C22_BuildAllOrNothing ==
  [][pc = "buildOnProperties"
       => LET p == currentPlayer
              group == GroupOf(buildColor)
              price == SpaceAt(SetMin(group)).housePrice
              added == [i \in group |-> nbBuildings'[i] - nbBuildings[i]]
              total == SumOver(added, group)
          IN  \/ UNCHANGED <<money, nbBuildings>>
              \/ /\ attempts <= MaxBuildAttempts
                 /\ pc' = "build"
                 /\ \A i \in group : added[i] >= 0 /\ nbBuildings'[i] <= HOTEL
                 /\ \A i, j \in group : nbBuildings'[i] - nbBuildings'[j] <= 1
                 /\ \A i \in PropertyIdx \ group : nbBuildings'[i] = nbBuildings[i]
                 /\ \A i \in group : SpaceAt(i).housePrice = price
                 /\ total * price <= money[p]
                 /\ money' = [money EXCEPT ![p] = money[p] - total * price]]_vars

\* three houses have been built on the purple group, two on one property
\* and one on the other, and paid for
C22_ThreeHousesBuilt ==
  /\ pc = "build"
  /\ owner[1] = 1 /\ owner[3] = 1
  /\ {nbBuildings[1], nbBuildings[3]} = {1, 2}
  /\ money[1] = LateGame.money[1] + GoBonus - SpaceAt(3).price
                  - 3 * SpaceAt(1).housePrice

\* C23: in every reachable state the properties of one colour group are
\* either all at the base level, or all within full-group .. hotel and at
\* most one step apart.
C23_GroupLevelsOneStepApart ==
  \A c \in Colors :
    \/ \A i \in GroupOf(c) : nbBuildings[i] = BASE_RENT
    \/ /\ \A i \in GroupOf(c) : nbBuildings[i] \in FULL_GROUP .. HOTEL
       /\ \A i, j \in GroupOf(c) : nbBuildings[i] - nbBuildings[j] <= 1

\* one house stands on one property of the purple group and none on the
\* other
C23_OneHouseAhead ==
  /\ owner[1] = 1 /\ owner[3] = 1
  /\ nbBuildings[1] = 1
  /\ nbBuildings[3] = FULL_GROUP

\* C24: in every reachable state a property whose level is not the base
\* level has an owner, and that owner owns every property of its colour
\* group.
C24_BuiltOnlyOnOwnedGroups ==
  \A i \in PropertyIdx :
    nbBuildings[i] # BASE_RENT
      => /\ owner[i] # Null
         /\ \A j \in GroupOf(SpaceAt(i).color) : owner[j] = owner[i]

\* the purple group has just been completed and raised to the full-group
\* level
C24_GroupJustCompleted ==
  /\ pc = "bankruptcy"
  /\ position[1] = 3
  /\ owner[1] = 1 /\ owner[3] = 1
  /\ nbBuildings[1] = FULL_GROUP /\ nbBuildings[3] = FULL_GROUP

\* C25 (as stated): for a build request on a 3-property colour group,
\* resulting levels [2,2,3] are rejected, resulting levels [2,2,4] are
\* rejected, and resulting levels [2,3,3], when the player can pay for
\* them, are accepted.
C25_BoundaryAsStated ==
  call.op = "buildOnProperties"
    => LET group == GroupOf("LIGHT_BLUE")
           target == [i \in group |-> call.nbBuildings[i] + call.additional[i]]
           levels == {target[i] : i \in group}
           total == SumOver(target, group)
           cost == SumOver(call.additional, group) * HousePrice("LIGHT_BLUE")
           rejected == nbBuildings = call.nbBuildings /\ money = call.money
           accepted == /\ \A i \in group : nbBuildings[i] = target[i]
                       /\ money[call.player] = call.money[call.player] - cost
       IN  /\ (levels = {2, 3} /\ total = 7) => rejected
           /\ (levels = {2, 4} /\ total = 8) => rejected
           /\ (levels = {2, 3} /\ total = 8 /\ cost <= call.money[call.player])
                => accepted

\* C25 (amended): for a build request on a 3-property colour group that the
\* player can pay for, resulting levels [2,2,3] are accepted, resulting
\* levels [2,2,4] are rejected, and resulting levels [2,3,3] are accepted.
C25_BoundaryOfOneStep ==
  call.op = "buildOnProperties"
    => LET group == GroupOf("LIGHT_BLUE")
           target == [i \in group |-> call.nbBuildings[i] + call.additional[i]]
           levels == {target[i] : i \in group}
           total == SumOver(target, group)
           cost == SumOver(call.additional, group) * HousePrice("LIGHT_BLUE")
           rejected == nbBuildings = call.nbBuildings /\ money = call.money
           accepted == /\ \A i \in group : nbBuildings[i] = target[i]
                       /\ money[call.player] = call.money[call.player] - cost
       IN  /\ (levels = {2, 3} /\ total = 7 /\ cost <= call.money[call.player])
                => accepted
           /\ (levels = {2, 4} /\ total = 8) => rejected
           /\ (levels = {2, 3} /\ total = 8 /\ cost <= call.money[call.player])
                => accepted

\* one house was asked for on the last property of a group with two houses
\* everywhere, and it has been built and paid for
C25_ThirdHouseOnOneProperty ==
  /\ call.op = "buildOnProperties"
  /\ \A i \in GroupOf("LIGHT_BLUE") : call.nbBuildings[i] = 2
  /\ nbBuildings[6] = 2 /\ nbBuildings[8] = 2 /\ nbBuildings[9] = 3
  /\ money[call.player] = call.money[call.player] - HousePrice("LIGHT_BLUE")

\* C26 (as stated): within one build request the full set of per-property
\* building counts has been asked for at most 50 times (attempts counts the
\* rounds asked so far), and once the cap is exceeded the request is aborted
\* with no money debited and no building level changed.
C26_AskedAtMostFiftyTimes ==
  /\ [](pc = "buildOnProperties" => attempts <= 50)
  /\ [][(pc = "buildOnProperties" /\ attempts > 50)
          => /\ pc' = "build"
             /\ UNCHANGED <<money, nbBuildings>>]_vars

\* C26 (amended): within one build request the full set of per-property
\* building counts is asked for at most 51 times, the first round and at
\* most 50 retries; once the cap is exceeded the request is aborted with no
\* money debited and no building level changed.
C26_AskedAtMostFiftyOneTimes ==
  /\ [](pc = "buildOnProperties" => attempts <= 51)
  /\ [][(pc = "buildOnProperties" /\ attempts > 50)
          => /\ pc' = "build"
             /\ UNCHANGED <<money, nbBuildings>>]_vars

\* the questions have been asked 51 times in one request, every answer with
\* levels more than one step apart
C26_CapExceeded ==
  /\ pc = "buildOnProperties"
  /\ attempts = MaxBuildAttempts + 1
  /\ buildColor = "PURPLE"

\* C27: startGame reaches its terminal state: the run is never cut short,
\* the game loop makes at most 1000 top-level playTurn calls and none once
\* at most one active player remains, and one top-level playTurn rolls the
\* movement dice at most 3 times (one roll per playTurn frame, at most 3
\* frames).
C27_StartGameTerminates ==
  /\ [](pc # "crashed")
  /\ [](turns <= MaxTurns /\ depth <= DoublesLimit)
  /\ [][(pc = "startGame" /\ pc' = "playTurn")
          => (Len(players) > 1 /\ turns < MaxTurns /\ turns' = turns)]_vars
  /\ [][(pc # "startGame" /\ pc' = "startGame") => turns' = turns + 1]_vars

\* C30: at every point of a game the active player list is non-empty:
\* setNextPlayer never computes a remainder by zero, and getPlayer(0) at the
\* end of the game is an existing player.
C30_PlayerListNeverEmpty ==
  /\ Len(players) > 0
  /\ pc # "crashed"

\* C28: the first player added to a new manager becomes the current player
\* and later additions do not change it; when the current player is in the
\* active list at index i of n, setNextPlayer makes the player at index
\* (i + 1) mod n current and leaves the list and every player as they were.
C28_AddPlayerAndSetNextPlayer ==
  /\ call.op = "addPlayer"
       => /\ players = Append(call.players, call.player)
          /\ currentPlayer = players[1]
          /\ call.players # <<>> => currentPlayer = call.currentPlayer
  /\ (call.op = "setNextPlayer" /\ call.currentPlayer \in Range(call.players))
       => LET n == Len(call.players)
              i == (CHOOSE k \in 1 .. n : call.players[k] = call.currentPlayer) - 1
          IN  /\ currentPlayer = call.players[((i + 1) % n) + 1]
              /\ players = call.players
              /\ money = [p \in Players |-> StartMoney]
              /\ position = [p \in Players |-> 0]

\* setNextPlayer has wrapped from the last of three players to the first
C28_WrappedToFirst ==
  /\ call.op = "setNextPlayer"
  /\ Len(call.players) = 3
  /\ call.currentPlayer = call.players[3]
  /\ currentPlayer = players[1]

\* C29: in every reachable state and for every player, getOwnedGroups
\* returns exactly the properties of the colour groups wholly owned by that
\* player, changes nothing but base -> full-group on those properties, and
\* a second call right after the first returns the same properties and
\* changes nothing.
C29_GetOwnedGroupsIdempotent ==
  \A p \in Players :
    LET returned == OwnedGroups(owner, p)
        once == UpgradeOwnedGroups(nbBuildings, owner, p)
        twice == UpgradeOwnedGroups(once, owner, p)
    IN  /\ returned = {i \in PropertyIdx :
                         \A j \in PropertyIdx :
                           SpaceAt(j).color = SpaceAt(i).color => owner[j] = p}
        /\ \A i \in PropertyIdx :
             once[i] # nbBuildings[i]
               => /\ i \in returned
                  /\ nbBuildings[i] = BASE_RENT
                  /\ once[i] = FULL_GROUP
        /\ \A i \in returned : once[i] # BASE_RENT
        /\ twice = once

\* a player has just completed the purple group: the first call raises both
\* properties from base to full-group
C29_FirstCallUpgrades ==
  /\ pc = "build"
  /\ owner[1] = 1 /\ owner[3] = 1
  /\ nbBuildings[1] = BASE_RENT /\ nbBuildings[3] = BASE_RENT
  /\ UpgradeOwnedGroups(nbBuildings, owner, 1)[1] = FULL_GROUP
  /\ UpgradeOwnedGroups(nbBuildings, owner, 1)[3] = FULL_GROUP

\* C31: when the end-of-turn cleanup removes the current player, the turn
\* passes to the player who followed the removed player in the rotation:
\* the first player after the removed one, wrapping round, who is still
\* active.
C31_TurnPassesToFollower ==
  [][(/\ pc = "bankruptcy"
      /\ currentPlayer \in Range(players)
      /\ currentPlayer \notin Range(players')
      /\ players' # <<>>)
       => LET i == IndexOf(players, currentPlayer) + 1
              rotation == SubSeq(players, i + 1, Len(players))
                            \o SubSeq(players, 1, i - 1)
              k == CHOOSE j \in 1 .. Len(rotation) :
                     /\ rotation[j] \in Range(players')
                     /\ \A h \in 1 .. j - 1 : rotation[h] \notin Range(players')
          IN  currentPlayer' = rotation[k]]_vars

\* C32: a direct purchase on landing never leaves the buyer with exactly 0
\* money (so the buyer is still active and still the owner when the turn
\* ends).
C32_PurchaseLeavesMoney ==
  [][(/\ pc = "handleSpace"
      /\ IsBuyable(position[currentPlayer])
      /\ owner[position[currentPlayer]] = Null
      /\ pc' # "auction"
      /\ owner'[position[currentPlayer]] = currentPlayer)
       => money'[currentPlayer] # 0]_vars

\* C33: a draw from the community-chest deck hands out no
\* get-out-of-jail-free token while that deck's own flag is set: the card is
\* drawn again.
C33_OwnFlagSuppressesCard ==
  [][(pc = "drawCommunityChestCard" /\ communityChestGOJFCTaken)
       => hasCommunityChestGOJFC' = hasCommunityChestGOJFC]_vars

\* C34: each deck's token-taken flag of the board is true exactly when some
\* active player holds that deck's get-out-of-jail-free token.
C34_FlagIffTokenHeld ==
  /\ chanceGOJFCTaken <=> \E p \in Range(players) : hasChanceGOJFC[p]
  /\ communityChestGOJFCTaken <=> \E p \in Range(players) : hasCommunityChestGOJFC[p]

\* C35: the owner of every owned purchasable space is a player of the active
\* list, in every reachable state.
C35_OwnersAreActive ==
  \A s \in BuyableIdx : owner[s] # Null => owner[s] \in Range(players)

C35_BankruptOwnerReleased ==
  /\ 1 \notin Range(players)
  /\ owner[1] = Null
  /\ owner[37] = 2 /\ 2 \in Range(players)

\* C36: for every active player the stored station count is the number of
\* stations the player owns and the stored utility count the number of
\* utilities the player owns, however they were acquired.
C36_CountsMatchOwnership ==
  \A p \in Range(players) :
    /\ nbStationsOwned[p] =
         Cardinality({s \in BuyableIdx : KindAt[s] = "Station" /\ owner[s] = p})
    /\ nbUtilitiesOwned[p] =
         Cardinality({s \in BuyableIdx : KindAt[s] = "Utility" /\ owner[s] = p})

C36_StationWonAtAuctionCounted ==
  /\ pc = "afterMove"
  /\ KindAt[position[currentPlayer]] = "Station"
  /\ owner[position[currentPlayer]] \notin {Null, currentPlayer}
  /\ call.op = "movePlayer" /\ call.player = currentPlayer
  /\ money[currentPlayer] = call.money
  /\ nbStationsOwned[owner[position[currentPlayer]]] = 1
  /\ nbStationsOwned[currentPlayer] = 0
  /\ turns = 0 /\ depth = 1

\* C37: whenever a playTurn call begins or returns, every active player with
\* turns left to serve stands on the jail space (index 10), so the jail
\* branch of playTurn always runs the Jail action.
C37_JailedPlayersStandOnJail ==
  /\ [](pc = "playTurn" =>
          \A p \in Range(players) :
            remainingTurnsInJail[p] > 0 => position[p] = JailIndex)
  /\ [][depth' < depth =>
          \A p \in Range(players') :
            remainingTurnsInJail'[p] > 0 => position'[p] = JailIndex]_vars

C37_JailedPlayerBeginsTurn ==
  /\ pc = "playTurn" /\ turns = 1 /\ depth = 1
  /\ remainingTurnsInJail[currentPlayer] > 0
  /\ position[currentPlayer] = JailIndex
  /\ SpaceAt(position[currentPlayer]).kind = "Jail"

\* C38: every auction terminates: each round either eliminates one candidate
\* (the bid unchanged) or keeps the candidates and strictly raises the high
\* bid, which never exceeds the largest money of an active player minus 1;
\* the auction is left only with exactly one candidate, who gets the space.
C38_AuctionRoundsMakeProgress ==
  /\ [][(pc = "auction" /\ Len(auctionPlayers) > 1)
          => /\ pc' = "auction"
             /\ \/ /\ Len(auctionPlayers') = Len(auctionPlayers) - 1
                   /\ bid' = bid
                \/ /\ Len(auctionPlayers') = Len(auctionPlayers)
                   /\ bid' > bid
                   /\ bid' <= SetMax({money[p] : p \in Range(players)}) - 1]_vars
  /\ [][(pc = "auction" /\ pc' # "auction")
          => /\ Len(auctionPlayers) = 1
             /\ owner'[position[currentPlayer]] = Head(auctionPlayers)]_vars

C38_LastCandidateAfterRaise ==
  /\ pc = "auction"
  /\ Len(auctionPlayers) = 1
  /\ bid > 0
  /\ highBidder = Head(auctionPlayers)
  /\ Len(players) = 3

\* C39: in a Jail action on a player with turns left, the fine is paid only
\* out of at least 50: money changes only by the payer losing exactly 50,
\* which releases the player and rolls no dice; with less than 50 the money
\* is unchanged, and a player who neither used a token nor paid is released
\* only by a double, and otherwise has one turn less to serve.
C39_JailFine ==
  [][(/\ pc = "handleSpace" /\ Here.kind = "Jail"
      /\ remainingTurnsInJail[currentPlayer] > 0)
       => LET p == currentPlayer
              tokensKept == /\ hasChanceGOJFC' = hasChanceGOJFC
                            /\ hasCommunityChestGOJFC' = hasCommunityChestGOJFC
          IN  /\ money' # money
                   => /\ money[p] >= JailFine
                      /\ money' = [money EXCEPT ![p] = money[p] - JailFine]
                      /\ remainingTurnsInJail'[p] = 0
                      /\ currentDicesValue' = currentDicesValue
                      /\ tokensKept
              /\ money[p] < JailFine => money' = money
              /\ (money' = money /\ tokensKept)
                   => IF remainingTurnsInJail'[p] = 0
                        THEN currentDicesValue'[1] = currentDicesValue'[2]
                        ELSE remainingTurnsInJail'[p] = remainingTurnsInJail[p] - 1]_vars

\* jailed by the third double with 1 money left, the player accepted to pay:
\* nothing was paid, the dice still show the double and a turn was served
C39_FineRefused ==
  /\ pc = "threeDoublesEnd"
  /\ position[currentPlayer] = JailIndex
  /\ money[currentPlayer] < JailFine /\ money[currentPlayer] > 0
  /\ remainingTurnsInJail[currentPlayer] = JailSentence - 1
  /\ currentDicesValue[1] = currentDicesValue[2]

\* C40: movePlayer(d) with d < 0 puts the player on (position + d) mod L in
\* the mathematical sense, also when position + d is negative: from
\* position 2, d = -3 leads to 39.
C40_BackwardsWrapsMathematically ==
  [][(call' # call /\ call'.op = "movePlayer" /\ call'.distanceToGo < 0)
       => position'[call'.player] =
            (position[call'.player] + call'.distanceToGo) % BoardSize]_vars
=============================================================================
